---------------------------- MODULE Spec2Model ----------------------------
(***************************************************************************)
(* Message-construction core of lattice-eth2-utils: byte buffers, the      *)
(* hex codec, SSZ hash-tree-roots of the fixed-size containers, domain     *)
(* and signing-root derivation, withdrawal credentials, and the deposit    *)
(* assembler talking to an external signer.                                *)
(*                                                                         *)
(* SHA-256 is modelled as a collision-free symbolic function: the digest   *)
(* of a buffer x is the 32-byte run [sha |-> x, from |-> 0, to |-> 32],    *)
(* and a slice of a digest is the run with narrower from/to.               *)
(***************************************************************************)
EXTENDS Integers, Sequences, FiniteSets, TLC

(***************************************************************************)
(* Byte buffers (Node Buffer / Uint8Array) and JavaScript strings.  Both   *)
(* are sequences of runs.  A run of a buffer is a sequence of concrete     *)
(* bytes [lit |-> <<0..255, ...>>] or the bytes from..to-1 of a SHA-256    *)
(* digest [sha |-> input, from, to]; a run of a string is a sequence of    *)
(* concrete characters [chars |-> <<"a", ...>>] or the characters          *)
(* from..to-1 of the hex text of a digest [hex |-> input, from, to].       *)
(* Values are kept packed: no empty run, and no two adjacent runs that     *)
(* could be one, so that equal buffers are equal values.                   *)
(***************************************************************************)
IsLit(it) == "lit" \in DOMAIN it

IsSha(it) == "sha" \in DOMAIN it

IsChars(it) == "chars" \in DOMAIN it

IsHex(it) == "hex" \in DOMAIN it

Min(a, c) == IF a < c THEN a ELSE c

Max(a, c) == IF a > c THEN a ELSE c

RunLen(it) ==
  IF IsLit(it) THEN Len(it.lit)
  ELSE IF IsChars(it) THEN Len(it.chars)
  ELSE it.to - it.from

\* buf.length, str.length
RECURSIVE BufLen(_)
BufLen(buf) == IF buf = <<>> THEN 0 ELSE RunLen(Head(buf)) + BufLen(Tail(buf))

\* Elements a..b-1 of a run, for 0 <= a < b <= RunLen(it).
RunSlice(it, a, b) ==
  IF IsLit(it) THEN [lit |-> SubSeq(it.lit, a + 1, b)]
  ELSE IF IsChars(it) THEN [chars |-> SubSeq(it.chars, a + 1, b)]
  ELSE [it EXCEPT !.from = it.from + a, !.to = it.from + b]

\* Two runs as one or two packed runs.
RunJoin(x, y) ==
  IF IsLit(x) /\ IsLit(y) THEN <<[lit |-> x.lit \o y.lit]>>
  ELSE IF IsChars(x) /\ IsChars(y) THEN <<[chars |-> x.chars \o y.chars]>>
  ELSE IF IsSha(x) /\ IsSha(y) /\ x.sha = y.sha /\ x.to = y.from
  THEN <<[x EXCEPT !.to = y.to]>>
  ELSE IF IsHex(x) /\ IsHex(y) /\ x.hex = y.hex /\ x.to = y.from
  THEN <<[x EXCEPT !.to = y.to]>>
  ELSE <<x, y>>

\* Buffer.concat([x, y]), x + y
Concat(x, y) ==
  IF x = <<>> THEN y
  ELSE IF y = <<>> THEN x
  ELSE SubSeq(x, 1, Len(x) - 1) \o RunJoin(x[Len(x)], Head(y)) \o Tail(y)

\* buf.slice(start, end), str.slice(start, end), for start >= 0; an end past
\* the length is the length.
RECURSIVE Slice(_, _, _)
Slice(buf, start, end) ==
  IF buf = <<>> \/ end <= 0 \/ end <= start THEN <<>>
  ELSE LET n == RunLen(Head(buf))
       IN  IF start >= n THEN Slice(Tail(buf), start - n, end - n)
           ELSE <<RunSlice(Head(buf), Max(start, 0), Min(end, n))>>
                \o Slice(Tail(buf), 0, end - n)

\* Byte i (0-based) of a buffer, as a run of length one.
ByteAt(buf, i) == Slice(buf, i, i + 1)[1]

\* Buffer.alloc(n): n zero bytes.
Alloc(n) == IF n = 0 THEN <<>> ELSE <<[lit |-> [i \in 1..n |-> 0]]>>

\* source.copy(target, targetStart): overwrites target from targetStart on
\* with as many bytes of source as fit; the target keeps its length.
Copy(source, target, targetStart) ==
  LET len == BufLen(target)
      n == Min(BufLen(source), Max(len - targetStart, 0))
  IN  Concat(Concat(Slice(target, 0, targetStart), Slice(source, 0, n)),
             Slice(target, targetStart + n, len))

\* target[index] = value
SetByte(target, index, value) == Copy(<<[lit |-> <<value>>]>>, target, index)

\* sha256(buf) of @noble/hashes: 32 bytes, collision-free.
sha256(buf) == <<[sha |-> buf, from |-> 0, to |-> 32]>>

(***************************************************************************)
(* The hex codec of Buffer.                                                *)
(***************************************************************************)
HexDigits == <<"0", "1", "2", "3", "4", "5", "6", "7", "8", "9",
               "a", "b", "c", "d", "e", "f">>

UpperHexDigits == <<"0", "1", "2", "3", "4", "5", "6", "7", "8", "9",
                    "A", "B", "C", "D", "E", "F">>

HexChars == {HexDigits[d] : d \in 1..16} \cup {UpperHexDigits[d] : d \in 1..16}

HexVal == [ch \in HexChars |->
             (CHOOSE d \in 1..16 : HexDigits[d] = ch \/ UpperHexDigits[d] = ch) - 1]

\* A string literal.
Str(chars) == IF chars = <<>> THEN <<>> ELSE <<[chars |-> chars]>>

\* The hex text of one run of a buffer: two lower-case digits per byte.
RunToHex(it) ==
  IF IsLit(it)
  THEN [chars |-> [k \in 1..(2 * Len(it.lit)) |->
                     IF k % 2 = 1 THEN HexDigits[(it.lit[(k + 1) \div 2] \div 16) + 1]
                     ELSE HexDigits[(it.lit[k \div 2] % 16) + 1]]]
  ELSE [hex |-> it.sha, from |-> 2 * it.from, to |-> 2 * it.to]

\* buf.toString('hex')
RECURSIVE HexEncode(_)
HexEncode(buf) ==
  IF buf = <<>> THEN <<>> ELSE Concat(<<RunToHex(Head(buf))>>, HexEncode(Tail(buf)))

\* The number of leading pairs of hex digits in a sequence of characters.
HexPairs(chars) ==
  LET pairs == Len(chars) \div 2
      bad == {k \in 1..pairs : chars[2 * k - 1] \notin HexChars \/ chars[2 * k] \notin HexChars}
  IN  IF bad = {} THEN pairs ELSE (CHOOSE k \in bad : \A j \in bad : k <= j) - 1

\* The bytes one run of a string decodes to, and whether decoding stopped in
\* it.  The hex text of a digest decodes to the bytes it was made from
\* (such a run starts and ends on a byte boundary wherever the core makes
\* one).
RunDecoded(it) ==
  IF IsChars(it)
  THEN IF HexPairs(it.chars) = 0 THEN <<>>
       ELSE <<[lit |-> [k \in 1..HexPairs(it.chars) |->
                          16 * HexVal[it.chars[2 * k - 1]] + HexVal[it.chars[2 * k]]]]>>
  ELSE <<[sha |-> it.hex, from |-> it.from \div 2, to |-> it.to \div 2]>>

RunDecodedWhole(it) == IsHex(it) \/ 2 * HexPairs(it.chars) = Len(it.chars)

\* Buffer.from(str, 'hex'): decodes pairs of hex digits and stops at the
\* first pair that is not two hex digits; a trailing odd digit is dropped.
RECURSIVE HexDecode(_)
HexDecode(str) ==
  IF str = <<>> THEN <<>>
  ELSE IF RunDecodedWhole(Head(str))
  THEN Concat(RunDecoded(Head(str)), HexDecode(Tail(str)))
  ELSE RunDecoded(Head(str))

(***************************************************************************)
(* JavaScript values handed to the core: a string, a Buffer, a number, an  *)
(* array, an object, undefined or null.  The outcome of a call that may    *)
(* throw is Ok(value) or Err(message of the Error thrown).                 *)
(***************************************************************************)
JsString(str) == [t |-> "string", s |-> str]

JsBuffer(buf) == [t |-> "buffer", buf |-> buf]

JsObject(v) == [t |-> "object", v |-> v]

JsArray(v) == [t |-> "array", v |-> v]

JsUndefined == [t |-> "undefined"]

JsNull == [t |-> "null"]

\* !v of JavaScript for the values the core tests.
Falsy(v) ==
  \/ v.t \in {"undefined", "null"}
  \/ v.t = "string" /\ v.s = <<>>
  \/ v.t = "number" /\ v.mag = <<>>

Ok(v) == [ok |-> TRUE, val |-> v]

Err(msg) == [ok |-> FALSE, err |-> msg]

(***************************************************************************)
(* utils.ts: ensureHexBuffer                                               *)
(***************************************************************************)
ERR_INPUT == "input must be a string or Buffer."

\* Mutant of ensureHexBuffer: the 0x prefix is decoded as hex, not stripped.
ensureHexBuffer_KeepPrefix(input) ==
  IF input.t = "string" THEN Ok(HexDecode(input.s))
  ELSE IF input.t = "buffer" THEN Ok(input.buf)
  ELSE Err(ERR_INPUT)

ensureHexBuffer(input) ==
  IF input.t = "string"
  THEN Ok(HexDecode(IF Slice(input.s, 0, 2) = Str(<<"0", "x">>)
                    THEN Slice(input.s, 2, BufLen(input.s))
                    ELSE input.s))
  ELSE IF input.t = "buffer" THEN Ok(input.buf)
  ELSE Err(ERR_INPUT)

(***************************************************************************)
(* Numbers.  A JavaScript number holding an integer is its sign and its    *)
(* magnitude in base 256, most significant digit first, without leading    *)
(* zeros (u64 values do not fit the model checker's integers).             *)
(***************************************************************************)
Num(mag) == [t |-> "number", neg |-> FALSE, mag |-> mag]

NumZero == Num(<<>>)

\* Mutant of UintBytesLE: most significant byte first.
UintBytesBE(n, width) ==
  <<[lit |-> [i \in 1..width |->
                IF width - i + 1 <= Len(n.mag) THEN n.mag[Len(n.mag) - (width - i)] ELSE 0]]>>

\* Mutant of UintBytesLE: only the low 32 bits of the value are written.
UintBytesLE_Low32(n, width) ==
  <<[lit |-> [i \in 1..width |->
                IF i <= 4 /\ i <= Len(n.mag) THEN n.mag[Len(n.mag) - i + 1] ELSE 0]]>>

\* value_serializeToBytes of UintNumberType: the low `width` bytes of the
\* value, least significant first.
UintBytesLE(n, width) ==
  <<[lit |-> [i \in 1..width |-> IF i <= Len(n.mag) THEN n.mag[Len(n.mag) - i + 1] ELSE 0]]>>

(***************************************************************************)
(* SSZ hash-tree-root of fixed-size containers (@chainsafe/ssz as the      *)
(* code calls it): UintNumberType(8) and ByteVectorType(n) fields.         *)
(***************************************************************************)
ZeroChunk == Alloc(32)

\* The buffer right-padded with zero bytes to `chunks` chunks of 32 bytes.
PadTo(buf, chunks) == Concat(buf, Alloc(32 * chunks - BufLen(buf)))

\* new Uint8Array(Math.ceil(value.length / 32) * 32), then set(value).
PadToChunks(buf) == PadTo(buf, (BufLen(buf) + 31) \div 32)

\* The 32-byte chunks of a buffer whose length is a multiple of 32.
SplitChunks(buf) == [k \in 1..(BufLen(buf) \div 32) |-> Slice(buf, 32 * (k - 1), 32 * k)]

\* The number of tree layers above `count` leaves.
RECURSIVE LayerCount(_)
LayerCount(count) == IF count <= 1 THEN 0 ELSE 1 + LayerCount((count + 1) \div 2)

\* zeroHash(depth): the root of a subtree of zero chunks.
RECURSIVE zeroHash(_)
zeroHash(depth) ==
  IF depth = 0 THEN ZeroChunk
  ELSE sha256(Concat(zeroHash(depth - 1), zeroHash(depth - 1)))

\* The pairs of an even layer hashed left to right.
HashPairs(chunks) ==
  [k \in 1..(Len(chunks) \div 2) |-> sha256(Concat(chunks[2 * k - 1], chunks[2 * k]))]

\* One layer up: an odd layer gets the zero hash of its depth appended.
HashLayer(chunks, depth) ==
  HashPairs(IF Len(chunks) % 2 = 1 THEN Append(chunks, zeroHash(depth)) ELSE chunks)

RECURSIVE MerkleizeFrom(_, _, _)
MerkleizeFrom(chunks, depth, layers) ==
  IF depth = layers THEN chunks[1]
  ELSE MerkleizeFrom(HashLayer(chunks, depth), depth + 1, layers)

ERR_LIMIT == "Input exceeds limit"

\* merkleize(chunks, padFor): Ok(root), or the library's error when there
\* are more chunks than the type allows.
merkleize(chunks, padFor) ==
  IF Len(chunks) > padFor THEN Err(ERR_LIMIT)
  ELSE IF Len(chunks) = 0 THEN Ok(zeroHash(LayerCount(padFor)))
  ELSE Ok(MerkleizeFrom(chunks, 0, LayerCount(padFor)))

\* new UintNumberType(byteLength), new ByteVectorType(lengthBytes), as the
\* fields of a container: a container type is the list of its fields.
UintNumberType(name, width) == [name |-> name, kind |-> "uint", width |-> width]

ByteVectorType(name, width) == [name |-> name, kind |-> "bytes", width |-> width]

\* hashTreeRoot of one field value.
FieldRoot(field, value) ==
  IF field.kind = "uint"
  THEN Ok(PadTo(UintBytesLE(value, field.width), 1))
  ELSE merkleize(SplitChunks(PadToChunks(value)), (field.width + 31) \div 32)

\* The field roots of a container value, in declaration order.
FieldRoots(type, value) == [k \in 1..Len(type) |-> FieldRoot(type[k], value[type[k].name])]

\* The field roots merkleized; the first error of a field is the error of
\* the whole.
MerkleizeRoots(roots) ==
  IF \E k \in 1..Len(roots) : ~roots[k].ok
  THEN roots[CHOOSE k \in 1..Len(roots) : ~roots[k].ok /\ \A j \in 1..(k - 1) : roots[j].ok]
  ELSE merkleize([k \in 1..Len(roots) |-> roots[k].val], Len(roots))

\* containerType.hashTreeRoot(value)
hashTreeRoot(type, value) == MerkleizeRoots(FieldRoots(type, value))

(***************************************************************************)
(* constants.ts                                                            *)
(***************************************************************************)
MAINNET_VALIDATORS_ROOT_HEX ==
  Str(<<"4", "b", "3", "6", "3", "d", "b", "9", "4", "e", "2", "8", "6", "1", "2", "0", "d", "7", "6", "e", "b", "9", "0", "5", "3", "4", "0", "f", "d", "d", "4", "e">>
      \o <<"5", "4", "b", "f", "e", "9", "f", "0", "6", "b", "f", "3", "3", "f", "f", "6", "c", "f", "5", "a", "d", "2", "7", "f", "5", "1", "1", "b", "f", "e", "9", "5">>)

NETWORKS_MAINNET_GENESIS ==
  [networkName |-> JsString(Str(<<"m", "a", "i", "n", "n", "e", "t">>)),
   forkVersion |-> JsBuffer(Alloc(4)),
   validatorsRoot |-> JsBuffer(HexDecode(MAINNET_VALIDATORS_ROOT_HEX))]

DOMAINS_BLS_TO_EXECUTION_CHANGE == HexDecode(Str(<<"0", "A", "0", "0", "0", "0", "0", "0">>))

DOMAINS_DEPOSIT == HexDecode(Str(<<"0", "3", "0", "0", "0", "0", "0", "0">>))

DOMAINS_VOLUNTARY_EXIT == HexDecode(Str(<<"0", "4", "0", "0", "0", "0", "0", "0">>))

DOMAINS == {DOMAINS_BLS_TO_EXECUTION_CHANGE, DOMAINS_DEPOSIT, DOMAINS_VOLUNTARY_EXIT}

(***************************************************************************)
(* utils.ts: buildDomain, buildSigningRoot, getWithdrawalCredentials       *)
(***************************************************************************)
ERR_FORK_VERSION == "forkVersion must be a 4-byte Buffer."

ERR_VALIDATORS_ROOT == "validatorsRoot must be a 32-byte Buffer."

ERR_OBJECT_ROOT == "objectRoot must be a 32-byte Buffer."

ERR_WITHDRAWAL_KEY == "withdrawalKey must be 48 byte BLS pubkey or Ethereum address."

forkDataType ==
  <<ByteVectorType("current_version", 4),
    ByteVectorType("genesis_validators_root", 32)>>

\* Mutant of DomainOf: the fork-data root is copied to offset 0, over the
\* domain type.
DomainOf_RootFirst(domainType, forkDataRoot) ==
  IF ~forkDataRoot.ok THEN forkDataRoot
  ELSE Ok(Copy(Slice(forkDataRoot.val, 0, 28), Copy(domainType, Alloc(32), 0), 0))

\* Mutant of DomainOf: the last 28 bytes of the fork-data root are used.
DomainOf_RootTail(domainType, forkDataRoot) ==
  IF ~forkDataRoot.ok THEN forkDataRoot
  ELSE Ok(Copy(Slice(forkDataRoot.val, 4, 32), Copy(domainType, Alloc(32), 0), 4))

\* Mutant of DomainOf: the domain type is left out.
DomainOf_NoType(domainType, forkDataRoot) ==
  IF ~forkDataRoot.ok THEN forkDataRoot
  ELSE Ok(Copy(Slice(forkDataRoot.val, 0, 28), Alloc(32), 4))

\* Lines 47-50: domain = Buffer.alloc(32); the domain type is copied to
\* offset 0 and the first 28 bytes of the fork-data root to offset 4.
DomainOf(domainType, forkDataRoot) ==
  IF ~forkDataRoot.ok THEN forkDataRoot
  ELSE Ok(Copy(Slice(forkDataRoot.val, 0, 28), Copy(domainType, Alloc(32), 0), 4))

\* Mutant of buildDomain: only the presence of the two values is checked,
\* not their lengths.
buildDomain_AnyLength(domainType, networkInfo) ==
  IF Falsy(networkInfo.forkVersion) THEN Err(ERR_FORK_VERSION)
  ELSE IF Falsy(networkInfo.validatorsRoot) THEN Err(ERR_VALIDATORS_ROOT)
  ELSE DomainOf(domainType,
                hashTreeRoot(forkDataType,
                             [current_version |-> networkInfo.forkVersion.buf,
                              genesis_validators_root |-> networkInfo.validatorsRoot.buf]))

buildDomain(domainType, networkInfo) ==
  IF Falsy(networkInfo.forkVersion) \/ BufLen(networkInfo.forkVersion.buf) # 4
  THEN Err(ERR_FORK_VERSION)
  ELSE IF Falsy(networkInfo.validatorsRoot) \/ BufLen(networkInfo.validatorsRoot.buf) # 32
  THEN Err(ERR_VALIDATORS_ROOT)
  ELSE DomainOf(domainType,
                hashTreeRoot(forkDataType,
                             [current_version |-> networkInfo.forkVersion.buf,
                              genesis_validators_root |-> networkInfo.validatorsRoot.buf]))

signingType ==
  <<ByteVectorType("object_root", 32),
    ByteVectorType("domain", 32)>>

\* Mutant of SigningRootOf: the domain is hashed before the object root.
SigningRootOf_DomainFirst(objectRoot, domain) ==
  IF ~domain.ok THEN domain
  ELSE hashTreeRoot(signingType, [object_root |-> domain.val, domain |-> objectRoot])

\* Lines 69-78: the root of the signing data, unless buildDomain threw.
SigningRootOf(objectRoot, domain) ==
  IF ~domain.ok THEN domain
  ELSE hashTreeRoot(signingType, [object_root |-> objectRoot, domain |-> domain.val])

\* Mutant of buildSigningRoot: the length of the object root is not checked.
buildSigningRoot_AnyRoot(objectRoot, domainType, networkInfo) ==
  SigningRootOf(objectRoot, buildDomain(domainType, networkInfo))

buildSigningRoot(objectRoot, domainType, networkInfo) ==
  IF BufLen(objectRoot) # 32 THEN Err(ERR_OBJECT_ROOT)
  ELSE SigningRootOf(objectRoot, buildDomain(domainType, networkInfo))

\* Mutant of CredentialsOf: the whole digest is copied to offset 1 (shifted
\* by one byte, its last byte lost).
CredentialsOf_Shifted(keyBuf) ==
  IF ~keyBuf.ok THEN keyBuf
  ELSE IF BufLen(keyBuf.val) = 48
  THEN Ok(Copy(sha256(keyBuf.val), SetByte(Alloc(32), 0, 0), 1))
  ELSE IF BufLen(keyBuf.val) = 20
  THEN Ok(Copy(keyBuf.val, SetByte(Alloc(32), 0, 1), 12))
  ELSE Err(ERR_WITHDRAWAL_KEY)

\* Mutant of CredentialsOf: the address is copied right after the type byte
\* (right-padded).
CredentialsOf_RightPadded(keyBuf) ==
  IF ~keyBuf.ok THEN keyBuf
  ELSE IF BufLen(keyBuf.val) = 48
  THEN Ok(Copy(Slice(sha256(keyBuf.val), 1, 32), SetByte(Alloc(32), 0, 0), 1))
  ELSE IF BufLen(keyBuf.val) = 20
  THEN Ok(Copy(keyBuf.val, SetByte(Alloc(32), 0, 1), 1))
  ELSE Err(ERR_WITHDRAWAL_KEY)

\* Mutant of CredentialsOf: a key that is not 48 bytes is taken for an
\* address.
CredentialsOf_NoLengthCheck(keyBuf) ==
  IF ~keyBuf.ok THEN keyBuf
  ELSE IF BufLen(keyBuf.val) = 48
  THEN Ok(Copy(Slice(sha256(keyBuf.val), 1, 32), SetByte(Alloc(32), 0, 0), 1))
  ELSE Ok(Copy(keyBuf.val, SetByte(Alloc(32), 0, 1), 12))

\* Lines 94-107: creds = Buffer.alloc(32), then the branch on the length of
\* the decoded key.
CredentialsOf(keyBuf) ==
  IF ~keyBuf.ok THEN keyBuf
  ELSE IF BufLen(keyBuf.val) = 48
  THEN Ok(Copy(Slice(sha256(keyBuf.val), 1, 32), SetByte(Alloc(32), 0, 0), 1))
  ELSE IF BufLen(keyBuf.val) = 20
  THEN Ok(Copy(keyBuf.val, SetByte(Alloc(32), 0, 1), 12))
  ELSE Err(ERR_WITHDRAWAL_KEY)

getWithdrawalCredentials(withdrawalKey) == CredentialsOf(ensureHexBuffer(withdrawalKey))

(***************************************************************************)
(* The writes of utils.ts on memory.  Memory maps the references a caller  *)
(* can reach (the buffers of constants.ts, the caller's own buffers) to    *)
(* their bytes; a function works on it extended with its own fresh         *)
(* buffers, which go out of reach when it returns.                         *)
(***************************************************************************)
SharedRefs ==
  {"DOMAINS.BLS_TO_EXECUTION_CHANGE", "DOMAINS.DEPOSIT",
   "NETWORKS.MAINNET_GENESIS.forkVersion", "NETWORKS.MAINNET_GENESIS.validatorsRoot"}

\* The buffers of constants.ts as the module creates them.
SharedMemory ==
  [r \in SharedRefs |->
     CASE r = "DOMAINS.BLS_TO_EXECUTION_CHANGE" -> DOMAINS_BLS_TO_EXECUTION_CHANGE
       [] r = "DOMAINS.DEPOSIT" -> DOMAINS_DEPOSIT
       [] r = "NETWORKS.MAINNET_GENESIS.forkVersion" -> NETWORKS_MAINNET_GENESIS.forkVersion.buf
       [] r = "NETWORKS.MAINNET_GENESIS.validatorsRoot" ->
            NETWORKS_MAINNET_GENESIS.validatorsRoot.buf]

\* A buffer newly made, under a reference of the function's own.
WithFresh(heap, ref, buf) ==
  [r \in (DOMAIN heap) \cup {ref} |-> IF r = ref THEN buf ELSE heap[r]]

\* What stays in reach of the caller when the function returns.
Visible(heap, refs) == [r \in refs |-> heap[r]]

\* Mutant of BufferCopy: source and target are taken for each other.
BufferCopy_Reversed(heap, source, target, targetStart) ==
  [heap EXCEPT ![source] = Copy(heap[target], heap[source], targetStart)]

\* source.copy(target, targetStart)
BufferCopy(heap, source, target, targetStart) ==
  [heap EXCEPT ![target] = Copy(heap[source], heap[target], targetStart)]

\* target[index] = value
SetIndex(heap, target, index, value) ==
  [heap EXCEPT ![target] = SetByte(heap[target], index, value)]

\* Mutant of CredentialsWrites: the credentials are built in the buffer of
\* the key.
CredentialsWrites_InPlace(heap, keyBuf) ==
  IF BufLen(heap[keyBuf]) = 48
  THEN WithFresh(SetIndex(heap, keyBuf, 0, 0), "creds", Alloc(32))
  ELSE IF BufLen(heap[keyBuf]) = 20
  THEN WithFresh(SetIndex(heap, keyBuf, 0, 1), "creds", Alloc(32))
  ELSE WithFresh(heap, "creds", Alloc(32))

\* utils.ts lines 94-107 (and depositData.ts 245-258): creds is allocated,
\* its first byte set and the key, or the tail of its digest, copied in.
CredentialsWrites(heap, keyBuf) ==
  IF BufLen(heap[keyBuf]) = 48
  THEN BufferCopy(WithFresh(SetIndex(WithFresh(heap, "creds", Alloc(32)), "creds", 0, 0),
                            "digest.slice(1)", Slice(sha256(heap[keyBuf]), 1, 32)),
                  "digest.slice(1)", "creds", 1)
  ELSE IF BufLen(heap[keyBuf]) = 20
  THEN BufferCopy(SetIndex(WithFresh(heap, "creds", Alloc(32)), "creds", 0, 1),
                  keyBuf, "creds", 12)
  ELSE WithFresh(heap, "creds", Alloc(32))

\* utils.ts lines 47-49: domain is allocated, the domain type and the first
\* 28 bytes of the fork-data root are copied in.
DomainWrites(heap, domainType, forkDataRoot) ==
  BufferCopy(WithFresh(BufferCopy(WithFresh(heap, "domain", Alloc(32)),
                                  domainType, "domain", 0),
                       "forkDataRoot.slice(0, 28)", Slice(forkDataRoot, 0, 28)),
             "forkDataRoot.slice(0, 28)", "domain", 4)

\* The memory in reach after buildDomain(domainType, {forkVersion,
\* validatorsRoot}), its arguments given by reference: nothing is written
\* when it throws.
buildDomain_Memory(heap, domainType, forkVersion, validatorsRoot) ==
  IF BufLen(heap[forkVersion]) # 4 \/ BufLen(heap[validatorsRoot]) # 32 THEN heap
  ELSE Visible(DomainWrites(heap, domainType,
                            hashTreeRoot(forkDataType,
                                         [current_version |-> heap[forkVersion],
                                          genesis_validators_root |-> heap[validatorsRoot]]).val),
               DOMAIN heap)

\* The bytes of the buffer buildDomain returns, none when it throws.
DomainMade(heap, domainType, forkVersion, validatorsRoot) ==
  IF BufLen(heap[forkVersion]) # 4 \/ BufLen(heap[validatorsRoot]) # 32 THEN <<>>
  ELSE DomainWrites(heap, domainType,
                    hashTreeRoot(forkDataType,
                                 [current_version |-> heap[forkVersion],
                                  genesis_validators_root |-> heap[validatorsRoot]]).val)["domain"]

\* The memory in reach after buildSigningRoot.
buildSigningRoot_Memory(heap, objectRoot, domainType, forkVersion, validatorsRoot) ==
  IF BufLen(objectRoot) # 32 THEN heap
  ELSE buildDomain_Memory(heap, domainType, forkVersion, validatorsRoot)

\* The memory in reach after getWithdrawalCredentials(withdrawalKey), the key
\* a buffer given by reference (ensureHexBuffer returns that very buffer).
getWithdrawalCredentials_Memory(heap, withdrawalKey) ==
  Visible(CredentialsWrites(heap, withdrawalKey), DOMAIN heap)

(***************************************************************************)
(* depositData.ts                                                          *)
(***************************************************************************)
\* Mutant of DepositCredentialsOf: a key that is not 48 bytes is taken for an
\* address.
DepositCredentialsOf_NoLengthCheck(keyBuf) ==
  IF ~keyBuf.ok THEN keyBuf
  ELSE IF BufLen(keyBuf.val) = 48
  THEN Ok(Copy(Slice(sha256(keyBuf.val), 1, 32), SetByte(Alloc(32), 0, 0), 1))
  ELSE Ok(Copy(keyBuf.val, SetByte(Alloc(32), 0, 1), 12))

\* Lines 245-258: the same statements as getWithdrawalCredentials.
DepositCredentialsOf(keyBuf) ==
  IF ~keyBuf.ok THEN keyBuf
  ELSE IF BufLen(keyBuf.val) = 48
  THEN Ok(Copy(Slice(sha256(keyBuf.val), 1, 32), SetByte(Alloc(32), 0, 0), 1))
  ELSE IF BufLen(keyBuf.val) = 20
  THEN Ok(Copy(keyBuf.val, SetByte(Alloc(32), 0, 1), 12))
  ELSE Err(ERR_WITHDRAWAL_KEY)

getEthDepositWithdrawalCredentials(withdrawalKey) ==
  DepositCredentialsOf(ensureHexBuffer(withdrawalKey))

\* Mutant of depositMessageType: amount declared before the credentials.
depositMessageType_AmountSecond ==
  <<ByteVectorType("pubkey", 48),
    UintNumberType("amount", 8),
    ByteVectorType("withdrawal_credentials", 32)>>

depositMessageType ==
  <<ByteVectorType("pubkey", 48),
    ByteVectorType("withdrawal_credentials", 32),
    UintNumberType("amount", 8)>>

depositDataType ==
  <<ByteVectorType("pubkey", 48),
    ByteVectorType("withdrawal_credentials", 32),
    UintNumberType("amount", 8),
    ByteVectorType("signature", 96)>>

ERR_PARAMS == "One or more params missing from req: path, amountGwei, networkInfo, depositCliVersion."

ERR_AMOUNT == "amountGwei must be >0 and <UINT64_MAX"

ERR_BN_ASSERT == "Assertion failed"

ERR_NO_NETWORK_NAME == "No networkName value found in networkInfo."

ERR_NO_FORK_VERSION == "No forkVersion value found in networkInfo."

ERR_FORK_VERSION_LEN == "forkVersion must be a 4 byte Buffer."

ERR_NO_VALIDATORS_ROOT == "No validatorsRoot value found in networkInfo."

ERR_VALIDATORS_ROOT_LEN == "validatorsRoot must be a 32 byte Buffer."

ERR_SIGNER == "Incorrect signer returned. Deposit data generation failed."

ERR_REJECTED == "signer request rejected"

\* 32000000000, the default amountGwei.
DEFAULT_AMOUNT_GWEI == Num(<<7, 115, 89, 64, 0>>)

DEFAULT_DEPOSIT_CLI_VERSION == JsString(Str(<<"2", ".", "3", ".", "0">>))

\* A destructuring default: applies when the option is undefined.
Default(v, d) == IF v.t = "undefined" THEN d ELSE v

\* number >= 2^53, where the number constructor of bn.js asserts.
AtLeastTwoPow53(n) == Len(n.mag) > 7 \/ (Len(n.mag) = 7 /\ n.mag[1] >= 32)

\* new BN(n).gte(new BN(2).pow(new BN(64)))
GteTwoPow64(n) == ~n.neg /\ Len(n.mag) > 8

\* The requests the assembler sends to the signer and the signer's answers,
\* as they are logged in the call's io.
GetAddressesReq(path) == [ev |-> "getAddresses", startPath |-> path]

SignReq(path, payload) == [ev |-> "sign", signerPath |-> path, payload |-> payload]

AddressesResp(pubs0) == [ev |-> "addresses", pubs0 |-> pubs0]

SignatureResp(pubkey, sig) == [ev |-> "signature", pubkey |-> pubkey, sig |-> sig]

RejectedResp == [ev |-> "rejected"]

NoBuf == <<>>

CallerRefs == {"path", "networkInfo.forkVersion", "networkInfo.validatorsRoot"}

\* The bytes of a buffer the caller may have left out.
BufferOrNone(v) == IF v.t = "buffer" THEN v.buf ELSE NoBuf

\* The memory in reach of an assembler call: the buffers of constants.ts, the
\* caller's path array and the buffers of the caller's networkInfo.
CallMemory(path, networkInfo) ==
  [r \in SharedRefs \cup CallerRefs |->
     IF r \in SharedRefs THEN SharedMemory[r]
     ELSE IF r = "path" THEN path
     ELSE IF networkInfo.t # "object" THEN NoBuf
     ELSE IF r = "networkInfo.forkVersion" THEN BufferOrNone(networkInfo.v.forkVersion)
     ELSE BufferOrNone(networkInfo.v.validatorsRoot)]

\* networkInfo = NETWORKS.MAINNET_GENESIS by default: the references of the
\* two buffers of the network info in use.
ForkVersionRef(opts) ==
  IF opts.networkInfo.t = "undefined" THEN "NETWORKS.MAINNET_GENESIS.forkVersion"
  ELSE "networkInfo.forkVersion"

ValidatorsRootRef(opts) ==
  IF opts.networkInfo.t = "undefined" THEN "NETWORKS.MAINNET_GENESIS.validatorsRoot"
  ELSE "networkInfo.validatorsRoot"

\* The memory in reach after getEthDepositWithdrawalCredentials(keyBuf), the
\* key a buffer of the call's own (decoded from a string, or the signer's).
getEthDepositWithdrawalCredentials_Memory(heap, keyBuf) ==
  Visible(CredentialsWrites(WithFresh(heap, "withdrawalKeyBuf", keyBuf), "withdrawalKeyBuf"),
          DOMAIN heap)

\* A call of buildDepositData before it has run: its arguments, the options
\* destructured with their defaults (lines 121-126), and its locals; result
\* is what buildDepositData returns or throws, entry the exported function
\* that called it and output what that function returns or throws.
NewDepositCall(path, opts) ==
  [pc |-> "start",
   path |-> path,
   opts |-> opts,
   amountGwei |-> Default(opts.amountGwei, DEFAULT_AMOUNT_GWEI),
   depositCliVersion |-> Default(opts.depositCliVersion, DEFAULT_DEPOSIT_CLI_VERSION),
   networkInfo |-> Default(opts.networkInfo, JsObject(NETWORKS_MAINNET_GENESIS)),
   withdrawTo |-> opts.withdrawTo,
   depositKey |-> NoBuf,
   withdrawalKeyBuf |-> NoBuf,
   withdrawalCreds |-> NoBuf,
   depositMessageRoot |-> NoBuf,
   depositDataRoot |-> NoBuf,
   io |-> <<>>,
   result |-> JsUndefined,
   entry |-> "generateObject",
   output |-> JsUndefined,
   heap |-> CallMemory(path, opts.networkInfo)]

\* The call ends with the error thrown.
Throw(c, msg) == [c EXCEPT !.pc = "thrown", !.result = Err(msg)]

\* The call sends a request to the signer and awaits the answer.
Send(c, req, pc) == [c EXCEPT !.pc = pc, !.io = Append(@, req)]

\* The awaited answer has arrived.
Received(c, resp) == [c EXCEPT !.io = Append(@, resp)]

\* Mutant of buildDepositData_Start: the first signer request is sent before
\* the checks of the network info.
buildDepositData_Start_LateChecks(c) ==
  IF Falsy(c.path) \/ Falsy(c.amountGwei) \/ Falsy(c.networkInfo) \/ Falsy(c.depositCliVersion)
  THEN Throw(c, ERR_PARAMS)
  ELSE IF c.amountGwei.neg THEN Throw(c, ERR_AMOUNT)
  ELSE IF AtLeastTwoPow53(c.amountGwei) THEN Throw(c, ERR_BN_ASSERT)
  ELSE IF GteTwoPow64(c.amountGwei) THEN Throw(c, ERR_AMOUNT)
  ELSE Send(c, GetAddressesReq(c.path.v), "awaitDepositKey")

\* Lines 127-155: the sanity checks, then the request for the deposit key.
buildDepositData_Start(c) ==
  IF Falsy(c.path) \/ Falsy(c.amountGwei) \/ Falsy(c.networkInfo) \/ Falsy(c.depositCliVersion)
  THEN Throw(c, ERR_PARAMS)
  ELSE IF c.amountGwei.neg THEN Throw(c, ERR_AMOUNT)
  ELSE IF AtLeastTwoPow53(c.amountGwei) THEN Throw(c, ERR_BN_ASSERT)
  ELSE IF GteTwoPow64(c.amountGwei) THEN Throw(c, ERR_AMOUNT)
  ELSE IF Falsy(c.networkInfo.v.networkName) THEN Throw(c, ERR_NO_NETWORK_NAME)
  ELSE IF Falsy(c.networkInfo.v.forkVersion) THEN Throw(c, ERR_NO_FORK_VERSION)
  ELSE IF BufLen(c.networkInfo.v.forkVersion.buf) # 4 THEN Throw(c, ERR_FORK_VERSION_LEN)
  ELSE IF Falsy(c.networkInfo.v.validatorsRoot) THEN Throw(c, ERR_NO_VALIDATORS_ROOT)
  ELSE IF BufLen(c.networkInfo.v.validatorsRoot.buf) # 32 THEN Throw(c, ERR_VALIDATORS_ROOT_LEN)
  ELSE Send(c, GetAddressesReq(c.path.v), "awaitDepositKey")

\* Mutant of buildDepositData_SendSign: the sign request goes to the
\* withdrawal path.
buildDepositData_SendSign_WrongPath(c, payload) ==
  IF ~payload.ok THEN Throw(c, payload.err)
  ELSE Send(c, SignReq(SubSeq(c.path.v, 1, Len(c.path.v) - 1), payload.val), "awaitSign")

\* Lines 188-198: the sign request, unless buildSigningRoot threw.
buildDepositData_SendSign(c, payload) ==
  IF ~payload.ok THEN Throw(c, payload.err)
  ELSE Send(c, SignReq(c.path.v, payload.val), "awaitSign")

\* Mutant of SignPayload: the BLS-to-execution-change domain is used.
SignPayload_WrongDomain(c, depositMessageRoot) ==
  buildSigningRoot(depositMessageRoot, DOMAINS_BLS_TO_EXECUTION_CHANGE, c.networkInfo.v)

\* Mutant of SignPayload: the built-in network is used whatever the caller's.
SignPayload_DefaultNetwork(c, depositMessageRoot) ==
  buildSigningRoot(depositMessageRoot, DOMAINS_DEPOSIT, NETWORKS_MAINNET_GENESIS)

\* Line 194: the payload of the sign request.
SignPayload(c, depositMessageRoot) ==
  buildSigningRoot(depositMessageRoot, c.heap["DOMAINS.DEPOSIT"], c.networkInfo.v)

\* Lines 181-194: the deposit message root is kept and the payload built,
\* unless hashTreeRoot threw.
buildDepositData_WithMessageRoot(c, root) ==
  IF ~root.ok THEN Throw(c, root.err)
  ELSE buildDepositData_SendSign(
         [c EXCEPT !.depositMessageRoot = root.val,
                   !.heap = buildSigningRoot_Memory(@, root.val, "DOMAINS.DEPOSIT",
                                                    ForkVersionRef(c.opts),
                                                    ValidatorsRootRef(c.opts))],
         SignPayload(c, root.val))

\* Lines 176-185: the root of the deposit message.
DepositMessageRoot(depositKey, withdrawalCreds, amountGwei) ==
  hashTreeRoot(depositMessageType,
               [pubkey |-> depositKey,
                withdrawal_credentials |-> withdrawalCreds,
                amount |-> amountGwei])

\* Lines 172-185: the credentials are kept and the message root computed,
\* unless getEthDepositWithdrawalCredentials threw.
buildDepositData_WithCredentials(c, creds) ==
  IF ~creds.ok THEN Throw(c, creds.err)
  ELSE buildDepositData_WithMessageRoot(
         [c EXCEPT !.withdrawalCreds = creds.val],
         DepositMessageRoot(c.depositKey, creds.val, c.amountGwei))

\* Lines 159-172: the withdrawal key is kept and encoded, unless
\* ensureHexBuffer threw.
buildDepositData_WithWithdrawalKey(c, keyBuf) ==
  IF ~keyBuf.ok THEN Throw(c, keyBuf.err)
  ELSE buildDepositData_WithCredentials(
         [c EXCEPT !.withdrawalKeyBuf = keyBuf.val,
                   !.heap = getEthDepositWithdrawalCredentials_Memory(@, keyBuf.val)],
         getEthDepositWithdrawalCredentials(JsBuffer(keyBuf.val)))

\* Mutant of buildDepositData_WithDepositKey: the withdrawal key is requested
\* at the deposit path itself.
buildDepositData_WithDepositKey_SamePath(c, depositKey) ==
  IF ~depositKey.ok THEN Throw(c, depositKey.err)
  ELSE IF ~Falsy(c.withdrawTo)
  THEN buildDepositData_WithWithdrawalKey([c EXCEPT !.depositKey = depositKey.val],
                                          ensureHexBuffer(c.withdrawTo))
  ELSE Send([c EXCEPT !.depositKey = depositKey.val],
            GetAddressesReq(c.path.v),
            "awaitWithdrawalKey")

\* Lines 156-170: the deposit key is kept; the withdrawal key is the
\* caller's withdrawTo, or is requested at the path without its last index.
buildDepositData_WithDepositKey(c, depositKey) ==
  IF ~depositKey.ok THEN Throw(c, depositKey.err)
  ELSE IF ~Falsy(c.withdrawTo)
  THEN buildDepositData_WithWithdrawalKey([c EXCEPT !.depositKey = depositKey.val],
                                          ensureHexBuffer(c.withdrawTo))
  ELSE Send([c EXCEPT !.depositKey = depositKey.val],
            GetAddressesReq(SubSeq(c.path.v, 1, Len(c.path.v) - 1)),
            "awaitWithdrawalKey")

\* Line 155 resumes: the answer to the request for the deposit key.
buildDepositData_OnDepositKey(c, resp) ==
  IF resp.ev = "rejected" THEN Throw(Received(c, resp), ERR_REJECTED)
  ELSE buildDepositData_WithDepositKey(Received(c, resp), ensureHexBuffer(resp.pubs0))

\* Mutant of buildDepositData_OnWithdrawalKey: a rejected request is made
\* again.
buildDepositData_OnWithdrawalKey_Retry(c, resp) ==
  IF resp.ev = "rejected"
  THEN Send(Received(c, resp),
            GetAddressesReq(SubSeq(c.path.v, 1, Len(c.path.v) - 1)),
            "awaitWithdrawalKey")
  ELSE buildDepositData_WithWithdrawalKey(Received(c, resp), ensureHexBuffer(resp.pubs0))

\* Line 168 resumes: the answer to the request for the withdrawal key.
buildDepositData_OnWithdrawalKey(c, resp) ==
  IF resp.ev = "rejected" THEN Throw(Received(c, resp), ERR_REJECTED)
  ELSE buildDepositData_WithWithdrawalKey(Received(c, resp), ensureHexBuffer(resp.pubs0))

\* Mutant of DepositDataRoot: the signature is left out of the record hashed.
DepositDataRoot_NoSignature(depositKey, withdrawalCreds, amountGwei, signature) ==
  hashTreeRoot(depositMessageType,
               [pubkey |-> depositKey,
                withdrawal_credentials |-> withdrawalCreds,
                amount |-> amountGwei])

\* Lines 205-216: the root of the deposit data.
DepositDataRoot(depositKey, withdrawalCreds, amountGwei, signature) ==
  hashTreeRoot(depositDataType,
               [pubkey |-> depositKey,
                withdrawal_credentials |-> withdrawalCreds,
                amount |-> amountGwei,
                signature |-> signature])

\* An object literal: its keys in the order written, and their values.
JsRecord(keys, v) == [t |-> "object", keys |-> keys, v |-> v]

\* Lines 219-227: the keys of the record returned, in the order written.
DepositDataKeys ==
  <<"pubkey", "withdrawal_credentials", "amount", "signature", "deposit_message_root",
    "deposit_data_root", "fork_version", "network_name", "deposit_cli_version">>

\* Mutant of buildDepositData_Return: the byte fields carry a 0x prefix.
buildDepositData_Return_Prefixed(c, sig, root) ==
  IF ~root.ok THEN Throw(c, root.err)
  ELSE [c EXCEPT
          !.pc = "returned",
          !.depositDataRoot = root.val,
          !.result = Ok(JsRecord(DepositDataKeys,
            [pubkey |-> Concat(Str(<<"0", "x">>), HexEncode(c.depositKey)),
             withdrawal_credentials |-> Concat(Str(<<"0", "x">>), HexEncode(c.withdrawalCreds)),
             amount |-> c.amountGwei,
             signature |-> Concat(Str(<<"0", "x">>), HexEncode(sig)),
             deposit_message_root |-> Concat(Str(<<"0", "x">>), HexEncode(c.depositMessageRoot)),
             deposit_data_root |-> Concat(Str(<<"0", "x">>), HexEncode(root.val)),
             fork_version |-> Concat(Str(<<"0", "x">>), HexEncode(c.networkInfo.v.forkVersion.buf)),
             network_name |-> c.networkInfo.v.networkName,
             deposit_cli_version |-> c.depositCliVersion]))]

\* Mutant of buildDepositData_Return: the two roots are written in the other
\* order.
buildDepositData_Return_RootsSwapped(c, sig, root) ==
  IF ~root.ok THEN Throw(c, root.err)
  ELSE [c EXCEPT
          !.pc = "returned",
          !.depositDataRoot = root.val,
          !.result = Ok(JsRecord(
            <<"pubkey", "withdrawal_credentials", "amount", "signature", "deposit_data_root",
              "deposit_message_root", "fork_version", "network_name", "deposit_cli_version">>,
            [pubkey |-> HexEncode(c.depositKey),
             withdrawal_credentials |-> HexEncode(c.withdrawalCreds),
             amount |-> c.amountGwei,
             signature |-> HexEncode(sig),
             deposit_message_root |-> HexEncode(c.depositMessageRoot),
             deposit_data_root |-> HexEncode(root.val),
             fork_version |-> HexEncode(c.networkInfo.v.forkVersion.buf),
             network_name |-> c.networkInfo.v.networkName,
             deposit_cli_version |-> c.depositCliVersion]))]

\* Lines 211-228: the record returned, unless hashTreeRoot threw.
buildDepositData_Return(c, sig, root) ==
  IF ~root.ok THEN Throw(c, root.err)
  ELSE [c EXCEPT
          !.pc = "returned",
          !.depositDataRoot = root.val,
          !.result = Ok(JsRecord(DepositDataKeys,
            [pubkey |-> HexEncode(c.depositKey),
             withdrawal_credentials |-> HexEncode(c.withdrawalCreds),
             amount |-> c.amountGwei,
             signature |-> HexEncode(sig),
             deposit_message_root |-> HexEncode(c.depositMessageRoot),
             deposit_data_root |-> HexEncode(root.val),
             fork_version |-> HexEncode(c.networkInfo.v.forkVersion.buf),
             network_name |-> c.networkInfo.v.networkName,
             deposit_cli_version |-> c.depositCliVersion]))]

\* Mutant of SignerMatches: the signer's key is not compared.
SignerMatches_Unchecked(sigPubkey, depositKey) == TRUE

\* Mutant of SignerMatches: only the lengths of the keys are compared.
SignerMatches_LengthOnly(sigPubkey, depositKey) == BufLen(sigPubkey) = BufLen(depositKey)

\* Line 199: the signer's key against the deposit key, as hex strings.
SignerMatches(sigPubkey, depositKey) == HexEncode(sigPubkey) = HexEncode(depositKey)

\* Line 198 resumes: the answer to the sign request; the check of the
\* signer (lines 199-201), then the deposit data root and the record.
buildDepositData_OnSignature(c, resp) ==
  IF resp.ev = "rejected" THEN Throw(Received(c, resp), ERR_REJECTED)
  ELSE IF ~SignerMatches(resp.pubkey, c.depositKey) THEN Throw(Received(c, resp), ERR_SIGNER)
  ELSE buildDepositData_Return(
         Received(c, resp), resp.sig,
         DepositDataRoot(c.depositKey, c.withdrawalCreds, c.amountGwei, resp.sig))

\* Line 53: the function selector of deposit(bytes,bytes,bytes,bytes32).
SELECTOR == Str(<<"0", "x", "2", "2", "8", "9", "5", "1", "1", "8">>)

\* A 32-byte big-endian word of the ABI holding a length or an offset.
AbiWord(n) ==
  <<[lit |-> [i \in 1..32 |->
                IF i = 32 THEN n % 256
                ELSE IF i = 31 THEN (n \div 256) % 256
                ELSE IF i = 30 THEN (n \div 65536) % 256
                ELSE 0]]>>

\* The length of n bytes padded to whole words.
AbiPaddedLen(n) == 32 * ((n + 31) \div 32)

\* The tail of a dynamic bytes value: its length, then its bytes right-padded
\* to whole words.
AbiBytes(b) ==
  Concat(AbiWord(BufLen(b)), Concat(b, Alloc(AbiPaddedLen(BufLen(b)) - BufLen(b))))

\* Mutant of AbiEncodeDeposit: the root is encoded as dynamic bytes like the
\* other three values.
AbiEncodeDeposit_AllDynamic(pubkey, creds, sig, root) ==
  Concat(AbiWord(128),
  Concat(AbiWord(160 + AbiPaddedLen(BufLen(pubkey))),
  Concat(AbiWord(192 + AbiPaddedLen(BufLen(pubkey)) + AbiPaddedLen(BufLen(creds))),
  Concat(AbiWord(224 + AbiPaddedLen(BufLen(pubkey)) + AbiPaddedLen(BufLen(creds))
                     + AbiPaddedLen(BufLen(sig))),
  Concat(AbiBytes(pubkey), Concat(AbiBytes(creds), Concat(AbiBytes(sig), AbiBytes(root))))))))

\* Mutant of AbiEncodeDeposit: signature and credentials change places.
AbiEncodeDeposit_SignatureSecond(pubkey, creds, sig, root) ==
  Concat(AbiWord(128),
  Concat(AbiWord(160 + AbiPaddedLen(BufLen(pubkey))),
  Concat(AbiWord(192 + AbiPaddedLen(BufLen(pubkey)) + AbiPaddedLen(BufLen(sig))),
  Concat(root,
  Concat(AbiBytes(pubkey), Concat(AbiBytes(sig), AbiBytes(creds)))))))

\* coder.encode(ABIS.DEPOSIT, [...]): a head of four words (the offsets of
\* the three dynamic values and the bytes32 in place), then the three tails.
AbiEncodeDeposit(pubkey, creds, sig, root) ==
  Concat(AbiWord(128),
  Concat(AbiWord(160 + AbiPaddedLen(BufLen(pubkey))),
  Concat(AbiWord(192 + AbiPaddedLen(BufLen(pubkey)) + AbiPaddedLen(BufLen(creds))),
  Concat(root,
  Concat(AbiBytes(pubkey), Concat(AbiBytes(creds), AbiBytes(sig)))))))

\* '0x' + a field of the record, as the coder reads it: the bytes of the hex.
HexArg(field) == ensureHexBuffer(JsString(Concat(Str(<<"0", "x">>), field))).val

\* The coder's output: 0x and the hex of the encoding.
AbiHex(encoded) == Concat(Str(<<"0", "x">>), HexEncode(encoded))

\* Lines 53-63: the selector, then the encoding without its 0x.
Calldata(encodedHex) == Concat(SELECTOR, Slice(encodedHex, 2, BufLen(encodedHex)))

\* Lines 33-63, after the await: generate returns the calldata of the record,
\* or throws what buildDepositData threw.
generate_Resume(c) ==
  IF c.pc = "returned"
  THEN [c EXCEPT !.output =
          Ok(JsString(Calldata(AbiHex(
            AbiEncodeDeposit(HexArg(c.result.val.v.pubkey),
                             HexArg(c.result.val.v.withdrawal_credentials),
                             HexArg(c.result.val.v.signature),
                             HexArg(c.result.val.v.deposit_data_root))))))]
  ELSE IF c.pc = "thrown" THEN [c EXCEPT !.output = c.result]
  ELSE c

\* Line 81: generateObject returns what buildDepositData returned, or throws
\* what it threw.
generateObject_Resume(c) ==
  IF c.pc \in {"returned", "thrown"} THEN [c EXCEPT !.output = c.result] ELSE c

\* The exported function continues once buildDepositData has settled.
Entry_Resume(c) ==
  IF c.entry = "generate" THEN generate_Resume(c) ELSE generateObject_Resume(c)

(***************************************************************************)
(* blsToExecution.ts                                                       *)
(***************************************************************************)
blsToExecutionChangeType ==
  <<UintNumberType("validator_index", 8),
    ByteVectorType("from_bls_pubkey", 48),
    ByteVectorType("to_execution_address", 20)>>

ERR_NO_ETH1_ADDR == "No eth1Addr value found."

ERR_NO_VALIDATOR_IDX == "No validatorIdx value found."

ERR_ETH1_ADDR == "Invalid ETH1 address"

ERR_BLS_PUB == "Invalid BLS withdrawal public key exported from Lattice"

DecimalChars == <<"0", "1", "2", "3", "4", "5", "6", "7", "8", "9">>

\* The integer a number holds (for numbers within the model checker's range).
RECURSIVE MagValue(_)
MagValue(mag) ==
  IF mag = <<>> THEN 0 ELSE 256 * MagValue(SubSeq(mag, 1, Len(mag) - 1)) + mag[Len(mag)]

RECURSIVE DecimalOf(_)
DecimalOf(k) ==
  IF k < 10 THEN <<DecimalChars[k + 1]>>
  ELSE Append(DecimalOf(k \div 10), DecimalChars[(k % 10) + 1])

\* The template literal of a number: its base-10 digits.
NumberToString(n) == Str(DecimalOf(MagValue(n.mag)))

\* 0x and the hex of a buffer, as the template literals write it.
PrefixedHex(buf) == Concat(Str(<<"0", "x">>), HexEncode(buf))

\* JSON.stringify(value): the text of the object, kept as the object it
\* renders.
JsonString(value) == [t |-> "string", json |-> value]

\* A call of the assembler before it has run: the version of the function
\* (generate of blsToExecution.ts, which returns JSON text, or
\* generateObject, which checks the lengths and adds the metadata), its
\* arguments, the options destructured (lines 24-28) and its locals.
NewBlsCall(entry, path, opts) ==
  [pc |-> "start",
   entry |-> entry,
   path |-> path,
   opts |-> opts,
   eth1Addr |-> opts.eth1Addr,
   validatorIdx |-> opts.validatorIdx,
   networkInfo |-> Default(opts.networkInfo, JsObject(NETWORKS_MAINNET_GENESIS)),
   eth1AddrBuf |-> NoBuf,
   blsWithdrawalPub |-> NoBuf,
   blsToExecutionChangeRoot |-> NoBuf,
   io |-> <<>>,
   result |-> JsUndefined,
   heap |-> CallMemory(path, opts.networkInfo)]

\* The message of the record returned.
BlsMessage(c) ==
  JsRecord(<<"validator_index", "from_bls_pubkey", "to_execution_address">>,
           [validator_index |-> NumberToString(c.validatorIdx),
            from_bls_pubkey |-> PrefixedHex(c.blsWithdrawalPub),
            to_execution_address |-> PrefixedHex(c.eth1AddrBuf)])

\* The metadata of the record generateObject returns.
BlsMetadata(c) ==
  JsRecord(<<"network_name", "genesis_validators_root", "deposit_cli_version">>,
           [network_name |-> c.networkInfo.v.networkName,
            genesis_validators_root |-> PrefixedHex(c.networkInfo.v.validatorsRoot.buf),
            deposit_cli_version |-> JsString(Str(<<"2", ".", "5", ".", "0">>))])

\* blsToExecution.ts lines 88-95: generate returns the JSON text of the
\* message and the signature.
blsToExecution_generate_Return(c, sig) ==
  [c EXCEPT
     !.pc = "returned",
     !.result = Ok(JsonString(
       JsRecord(<<"message", "signature">>,
                [message |-> BlsMessage(c), signature |-> PrefixedHex(sig)])))]

\* generateObject returns the message, the signature and the metadata.
blsToExecution_generateObject_Return(c, sig) ==
  [c EXCEPT
     !.pc = "returned",
     !.result = Ok(
       JsRecord(<<"message", "signature", "metadata">>,
                [message |-> BlsMessage(c),
                 signature |-> PrefixedHex(sig),
                 metadata |-> BlsMetadata(c)]))]

\* Line 84 resumes: the answer to the sign request; the record is returned.
blsToExecution_OnSignature(c, resp) ==
  IF resp.ev = "rejected" THEN Throw(Received(c, resp), ERR_REJECTED)
  ELSE IF c.entry = "generate" THEN blsToExecution_generate_Return(Received(c, resp), resp.sig)
  ELSE blsToExecution_generateObject_Return(Received(c, resp), resp.sig)

\* Mutant of blsToExecution_SendSign: the sign request goes to the parent path.
blsToExecution_SendSign_ParentPath(c, payload) ==
  IF ~payload.ok THEN Throw(c, payload.err)
  ELSE Send(c, SignReq(SubSeq(c.path.v, 1, Len(c.path.v) - 1), payload.val), "awaitSign")

\* Mutant of blsToExecution_SendSign: the sign request is sent twice.
blsToExecution_SendSign_Twice(c, payload) ==
  IF ~payload.ok THEN Throw(c, payload.err)
  ELSE Send(Send(c, SignReq(c.path.v, payload.val), "awaitSign"),
            SignReq(c.path.v, payload.val), "awaitSign")

\* Lines 69-84: the sign request, unless buildSigningRoot threw.
blsToExecution_SendSign(c, payload) ==
  IF ~payload.ok THEN Throw(c, payload.err)
  ELSE Send(c, SignReq(c.path.v, payload.val), "awaitSign")

\* Mutant of BlsSignPayload: the deposit domain is used.
BlsSignPayload_DepositDomain(c, root) ==
  buildSigningRoot(root, DOMAINS_DEPOSIT, c.networkInfo.v)

\* Lines 76-80: the payload of the sign request.
BlsSignPayload(c, root) ==
  buildSigningRoot(root, c.heap["DOMAINS.BLS_TO_EXECUTION_CHANGE"], c.networkInfo.v)

\* Lines 64-80: the root is kept and the payload built, unless hashTreeRoot
\* threw.
blsToExecution_WithRoot(c, root) ==
  IF ~root.ok THEN Throw(c, root.err)
  ELSE blsToExecution_SendSign(
         [c EXCEPT !.blsToExecutionChangeRoot = root.val,
                   !.heap = buildSigningRoot_Memory(@, root.val,
                                                    "DOMAINS.BLS_TO_EXECUTION_CHANGE",
                                                    ForkVersionRef(c.opts),
                                                    ValidatorsRootRef(c.opts))],
         BlsSignPayload(c, root.val))

\* Lines 58-66: the root of the change message.
BlsToExecutionChangeRoot(validatorIdx, blsWithdrawalPub, eth1AddrBuf) ==
  hashTreeRoot(blsToExecutionChangeType,
               [validator_index |-> validatorIdx,
                from_bls_pubkey |-> blsWithdrawalPub,
                to_execution_address |-> eth1AddrBuf])

\* Lines 42-66: the key is kept (generateObject throws unless it has 48
\* bytes) and the root computed, unless ensureHexBuffer threw.
blsToExecution_WithKey(c, pub) ==
  IF ~pub.ok THEN Throw(c, pub.err)
  ELSE IF c.entry = "generateObject" /\ BufLen(pub.val) # 48 THEN Throw(c, ERR_BLS_PUB)
  ELSE blsToExecution_WithRoot(
         [c EXCEPT !.blsWithdrawalPub = pub.val],
         BlsToExecutionChangeRoot(c.validatorIdx, pub.val, c.eth1AddrBuf))

\* Line 38 resumes: the answer to the request for the withdrawal key.
blsToExecution_OnKey(c, resp) ==
  IF resp.ev = "rejected" THEN Throw(Received(c, resp), ERR_REJECTED)
  ELSE blsToExecution_WithKey(Received(c, resp), ensureHexBuffer(resp.pubs0))

\* Lines 35-41: the address is kept (generateObject throws unless it has 20
\* bytes) and the key requested, unless ensureHexBuffer threw.
blsToExecution_WithAddress(c, addr) ==
  IF ~addr.ok THEN Throw(c, addr.err)
  ELSE IF c.entry = "generateObject" /\ BufLen(addr.val) # 20 THEN Throw(c, ERR_ETH1_ADDR)
  ELSE Send([c EXCEPT !.eth1AddrBuf = addr.val], GetAddressesReq(c.path.v), "awaitKey")

\* Mutant of blsToExecution_Start: the validator index is tested as the
\* address is, by its truth value.
blsToExecution_Start_FalsyIdx(c) ==
  IF Falsy(c.eth1Addr) THEN Throw(c, ERR_NO_ETH1_ADDR)
  ELSE IF Falsy(c.validatorIdx) THEN Throw(c, ERR_NO_VALIDATOR_IDX)
  ELSE blsToExecution_WithAddress(c, ensureHexBuffer(c.eth1Addr))

\* Mutant of blsToExecution_Start: the parameters are checked after the key
\* has been requested.
blsToExecution_Start_NoChecks(c) ==
  Send(c, GetAddressesReq(c.path.v), "awaitKey")

\* Lines 29-35: the checks of the parameters.
blsToExecution_Start(c) ==
  IF Falsy(c.eth1Addr) THEN Throw(c, ERR_NO_ETH1_ADDR)
  ELSE IF c.validatorIdx.t \in {"undefined", "null"} THEN Throw(c, ERR_NO_VALIDATOR_IDX)
  ELSE blsToExecution_WithAddress(c, ensureHexBuffer(c.eth1Addr))

(***************************************************************************)
(* The inputs the model draws from.                                        *)
(***************************************************************************)
\* The number of distinct byte patterns per kind of input.
MaxSeed == 2

Seeds == 1..MaxSeed

\* n concrete bytes, different at every position and for every seed.
Bytes(seed, n) == IF n = 0 THEN <<>> ELSE <<[lit |-> [i \in 1..n |-> (seed * 16 + i) % 256]]>>

HexString(buf) == JsString(HexEncode(buf))

PrefixedHexString(buf) == JsString(Concat(Str(<<"0", "x">>), HexEncode(buf)))

\* What getAddresses may resolve to: 48-byte keys, and a key one byte short.
SignerKeys == {Bytes(s, 48) : s \in Seeds} \cup {Bytes(1, 47)}

SignerSignatures == {Bytes(s + 8, 96) : s \in Seeds}

Paths == {JsArray(<<12381, 3600, 0, 0, 0>>), JsUndefined}

\* undefined, 0, 1, 0x010203040506, -1, 2^53, 2^64 - 2048 (the largest number
\* below 2^64 that JavaScript holds) and 2^64.
AmountOptions ==
  {JsUndefined,
   NumZero,
   Num(<<1>>),
   Num(<<1, 2, 3, 4, 5, 6>>),
   [t |-> "number", neg |-> TRUE, mag |-> <<1>>],
   Num(<<32, 0, 0, 0, 0, 0, 0>>),
   Num(<<255, 255, 255, 255, 255, 255, 248, 0>>),
   Num(<<1, 0, 0, 0, 0, 0, 0, 0, 0>>)}

VersionOptions == {JsUndefined, JsString(<<>>), JsString(Str(<<"2", ".", "5", ".", "0">>))}

NetworkInfo(name, forkVersion, validatorsRoot) ==
  [networkName |-> name, forkVersion |-> forkVersion, validatorsRoot |-> validatorsRoot]

TestnetName == JsString(Str(<<"g", "o", "e", "r", "l", "i">>))

ValidNetworkInfos ==
  {NETWORKS_MAINNET_GENESIS,
   NetworkInfo(TestnetName, JsBuffer(Bytes(3, 4)), JsBuffer(Bytes(4, 32)))}

InvalidNetworkInfos ==
  {NetworkInfo(TestnetName, JsBuffer(Bytes(3, 3)), JsBuffer(Bytes(4, 32))),
   NetworkInfo(TestnetName, JsBuffer(Bytes(3, 4)), JsBuffer(Bytes(4, 33))),
   NetworkInfo(JsUndefined, JsBuffer(Bytes(3, 4)), JsBuffer(Bytes(4, 32))),
   NetworkInfo(TestnetName, JsUndefined, JsBuffer(Bytes(4, 32))),
   NetworkInfo(TestnetName, JsBuffer(Bytes(3, 4)), JsUndefined)}

NetworkInfoOptions ==
  {JsUndefined} \cup {JsObject(n) : n \in ValidNetworkInfos \cup InvalidNetworkInfos}

WithdrawToOptions ==
  {JsUndefined,
   PrefixedHexString(Bytes(5, 20)),
   HexString(Bytes(6, 48)),
   PrefixedHexString(Bytes(5, 19))}

DepositOpts ==
  [amountGwei : AmountOptions,
   depositCliVersion : VersionOptions,
   networkInfo : NetworkInfoOptions,
   withdrawTo : WithdrawToOptions]

(***************************************************************************)
(* State: the one deposit call in progress, the last call of a utility     *)
(* function with its arguments and its outcome, and the one BLS-to-        *)
(* execution-change call in progress.  For calls made while others are in  *)
(* flight: calls holds the assembler calls of two call sites, and shared   *)
(* the buffers of constants.ts, the only memory all calls can reach.       *)
(***************************************************************************)
VARIABLES dep, util, bls, calls, shared

vars == <<dep, util, bls, calls, shared>>

IdleDeposit ==
  [NewDepositCall(JsUndefined,
                  [amountGwei |-> JsUndefined, depositCliVersion |-> JsUndefined,
                   networkInfo |-> JsUndefined, withdrawTo |-> JsUndefined])
     EXCEPT !.pc = "idle"]

NoUtilCall == [fn |-> "none"]

IdleBls ==
  [NewBlsCall("generate", JsUndefined,
              [eth1Addr |-> JsUndefined, validatorIdx |-> JsUndefined,
               networkInfo |-> JsUndefined])
     EXCEPT !.pc = "idle"]

\* The call sites from which assembler calls are made concurrently.
CallSites == {"first", "second"}

NoCall == [kind |-> "none"]

Init ==
  /\ dep = IdleDeposit
  /\ util = NoUtilCall
  /\ bls = IdleBls
  /\ calls = [s \in CallSites |-> NoCall]
  /\ shared = SharedMemory

\* generate(client, path, opts): runs to the first await or throws.
Generate ==
  /\ dep.pc = "idle"
  /\ \E path \in Paths, opts \in DepositOpts :
       dep' = Entry_Resume(buildDepositData_Start(
                [NewDepositCall(path, opts) EXCEPT !.entry = "generate"]))
  /\ UNCHANGED <<util, bls, calls, shared>>

\* generateObject(client, path, opts): runs to the first await or throws.
GenerateObject ==
  /\ dep.pc = "idle"
  /\ \E path \in Paths, opts \in DepositOpts :
       dep' = Entry_Resume(buildDepositData_Start(NewDepositCall(path, opts)))
  /\ UNCHANGED <<util, bls, calls, shared>>

\* client.getAddresses resolves with the deposit key.
ResolveDepositKey ==
  /\ dep.pc = "awaitDepositKey"
  /\ \E key \in SignerKeys :
       dep' = Entry_Resume(buildDepositData_OnDepositKey(dep, AddressesResp(JsBuffer(key))))
  /\ UNCHANGED <<util, bls, calls, shared>>

\* client.getAddresses resolves with the derived withdrawal key.
ResolveWithdrawalKey ==
  /\ dep.pc = "awaitWithdrawalKey"
  /\ \E key \in SignerKeys :
       dep' = Entry_Resume(buildDepositData_OnWithdrawalKey(dep, AddressesResp(JsBuffer(key))))
  /\ UNCHANGED <<util, bls, calls, shared>>

\* client.sign resolves with a key and a signature.
ResolveSign ==
  /\ dep.pc = "awaitSign"
  /\ \E pubkey \in SignerKeys, sig \in SignerSignatures :
       dep' = Entry_Resume(buildDepositData_OnSignature(dep, SignatureResp(pubkey, sig)))
  /\ UNCHANGED <<util, bls, calls, shared>>

\* The pending signer request is rejected; the await throws.
RejectRequest ==
  /\ \/ dep.pc = "awaitDepositKey"
        /\ dep' = Entry_Resume(buildDepositData_OnDepositKey(dep, RejectedResp))
     \/ dep.pc = "awaitWithdrawalKey"
        /\ dep' = Entry_Resume(buildDepositData_OnWithdrawalKey(dep, RejectedResp))
     \/ dep.pc = "awaitSign"
        /\ dep' = Entry_Resume(buildDepositData_OnSignature(dep, RejectedResp))
  /\ UNCHANGED <<util, bls, calls, shared>>

Next ==
  \/ Generate
  \/ GenerateObject
  \/ ResolveDepositKey
  \/ ResolveWithdrawalKey
  \/ ResolveSign
  \/ RejectRequest

Spec == Init /\ [][Next]_vars

(***************************************************************************)
(* The utility functions called on their own: util records the function,   *)
(* its arguments and its outcome.                                          *)
(***************************************************************************)
KeyLengths == {0, 19, 20, 21, 47, 48, 49}

RawKeys == {Bytes(s, n) : s \in Seeds, n \in KeyLengths}

\* A key as the caller may pass it: a Buffer, or its hex text with or
\* without the 0x prefix.
KeyForms(raw) == {JsBuffer(raw), HexString(raw), PrefixedHexString(raw)}

UtilNetworkInfos ==
  ValidNetworkInfos \cup InvalidNetworkInfos
  \cup {NetworkInfo(TestnetName, JsUndefined, JsBuffer(Bytes(4, 32))),
        NetworkInfo(TestnetName, JsBuffer(Bytes(3, 4)), JsUndefined)}

ObjectRoots ==
  {Bytes(s, 32) : s \in Seeds}
  \cup {sha256(Bytes(1, 4)), Bytes(1, 31), Bytes(1, 33)}

\* Integers a JavaScript number holds exactly (below 2^53): 0, 1, 2^32,
\* 32000000000 and 0x01020304050607.
UintValues ==
  {NumZero, Num(<<1>>), Num(<<1, 0, 0, 0, 0>>), DEFAULT_AMOUNT_GWEI,
   Num(<<1, 2, 3, 4, 5, 6, 7>>)}

CredentialValues ==
  {getWithdrawalCredentials(JsBuffer(Bytes(s, 48))).val : s \in Seeds}
  \cup {getWithdrawalCredentials(JsBuffer(Bytes(1, 20))).val}

\* The containers of the core by name, and values of their fields.
RecordNames == {"forkData", "signingData", "depositMessage", "depositData", "blsToExecutionChange"}

RecordType(name) ==
  CASE name = "forkData" -> forkDataType
    [] name = "signingData" -> signingType
    [] name = "depositMessage" -> depositMessageType
    [] name = "depositData" -> depositDataType
    [] name = "blsToExecutionChange" -> blsToExecutionChangeType

RecordValues(name) ==
  CASE name = "forkData" ->
         [current_version : {Bytes(s, 4) : s \in Seeds},
          genesis_validators_root : {Bytes(s, 32) : s \in Seeds}]
    [] name = "signingData" ->
         [object_root : {Bytes(s, 32) : s \in Seeds},
          domain : {Bytes(s, 32) : s \in Seeds}]
    [] name = "depositMessage" ->
         [pubkey : {Bytes(s, 48) : s \in Seeds},
          withdrawal_credentials : CredentialValues,
          amount : UintValues]
    [] name = "depositData" ->
         [pubkey : {Bytes(s, 48) : s \in Seeds},
          withdrawal_credentials : CredentialValues,
          amount : {Num(<<1>>), DEFAULT_AMOUNT_GWEI},
          signature : SignerSignatures]
    [] name = "blsToExecutionChange" ->
         [validator_index : UintValues,
          from_bls_pubkey : {Bytes(s, 48) : s \in Seeds},
          to_execution_address : {Bytes(s, 20) : s \in Seeds}]

CallGetWithdrawalCredentials ==
  /\ util = NoUtilCall
  /\ \E raw \in RawKeys : \E key \in KeyForms(raw) :
       util' = [fn |-> "getWithdrawalCredentials", raw |-> raw, key |-> key,
                ret |-> getWithdrawalCredentials(key)]
  /\ UNCHANGED <<dep, bls, calls, shared>>

CallGetEthDepositWithdrawalCredentials ==
  /\ util = NoUtilCall
  /\ \E raw \in RawKeys : \E key \in KeyForms(raw) :
       util' = [fn |-> "getEthDepositWithdrawalCredentials", raw |-> raw, key |-> key,
                ret |-> getEthDepositWithdrawalCredentials(key)]
  /\ UNCHANGED <<dep, bls, calls, shared>>

\* The credentials of two keys, derived one after the other.
CompareWithdrawalCredentials ==
  /\ util = NoUtilCall
  /\ \E raw1, raw2 \in RawKeys :
       util' = [fn |-> "getWithdrawalCredentials2", raw1 |-> raw1, raw2 |-> raw2,
                ret1 |-> getWithdrawalCredentials(JsBuffer(raw1)),
                ret2 |-> getWithdrawalCredentials(JsBuffer(raw2))]
  /\ UNCHANGED <<dep, bls, calls, shared>>

CallBuildDomain ==
  /\ util = NoUtilCall
  /\ \E domainType \in DOMAINS, networkInfo \in UtilNetworkInfos :
       util' = [fn |-> "buildDomain", domainType |-> domainType, networkInfo |-> networkInfo,
                ret |-> buildDomain(domainType, networkInfo)]
  /\ UNCHANGED <<dep, bls, calls, shared>>

\* The domains of two domain types for one network.
CompareDomains ==
  /\ util = NoUtilCall
  /\ \E domainType1, domainType2 \in DOMAINS, networkInfo \in UtilNetworkInfos :
       util' = [fn |-> "buildDomain2", domainType1 |-> domainType1,
                domainType2 |-> domainType2, networkInfo |-> networkInfo,
                ret1 |-> buildDomain(domainType1, networkInfo),
                ret2 |-> buildDomain(domainType2, networkInfo)]
  /\ UNCHANGED <<dep, bls, calls, shared>>

CallBuildSigningRoot ==
  /\ util = NoUtilCall
  /\ \E objectRoot \in ObjectRoots, domainType \in DOMAINS, networkInfo \in UtilNetworkInfos :
       util' = [fn |-> "buildSigningRoot", objectRoot |-> objectRoot,
                domainType |-> domainType, networkInfo |-> networkInfo,
                ret |-> buildSigningRoot(objectRoot, domainType, networkInfo)]
  /\ UNCHANGED <<dep, bls, calls, shared>>

CallHashTreeRoot ==
  /\ util = NoUtilCall
  /\ \E name \in RecordNames : \E value \in RecordValues(name) :
       util' = [fn |-> "hashTreeRoot", record |-> name, value |-> value,
                ret |-> hashTreeRoot(RecordType(name), value)]
  /\ UNCHANGED <<dep, bls, calls, shared>>

\* The roots of two values of one container, computed one after the other.
CompareHashTreeRoots ==
  /\ util = NoUtilCall
  /\ \E name \in RecordNames : \E value1, value2 \in RecordValues(name) :
       util' = [fn |-> "hashTreeRoot2", record |-> name,
                value1 |-> value1, value2 |-> value2,
                ret1 |-> hashTreeRoot(RecordType(name), value1),
                ret2 |-> hashTreeRoot(RecordType(name), value2)]
  /\ UNCHANGED <<dep, bls, calls, shared>>

\* Hex texts: empty, 3 and 20 bytes in lower case, the text of a digest,
\* mixed case, an odd number of digits, and a text that is not hex.
HexTexts ==
  {<<>>,
   HexEncode(Bytes(1, 3)),
   HexEncode(Bytes(2, 20)),
   HexEncode(sha256(Bytes(1, 4))),
   Str(<<"A", "b", "C", "d">>),
   Str(<<"a", "b", "c">>),
   Str(<<"z", "z">>)}

WithPrefix(text) == Concat(Str(<<"0", "x">>), text)

EnsureHexBufferInputs ==
  {JsString(text) : text \in HexTexts}
  \cup {JsString(WithPrefix(text)) : text \in HexTexts}
  \cup {JsBuffer(raw) : raw \in {<<>>, Bytes(1, 20), Bytes(2, 48), sha256(Bytes(1, 4))}}
  \cup {JsUndefined, JsNull, Num(<<1>>), JsArray(<<171, 205>>), JsObject([length |-> Num(<<2>>)])}

CallEnsureHexBuffer ==
  /\ util = NoUtilCall
  /\ \E input \in EnsureHexBufferInputs :
       util' = [fn |-> "ensureHexBuffer", input |-> input, ret |-> ensureHexBuffer(input)]
  /\ UNCHANGED <<dep, bls, calls, shared>>

\* One text decoded without and with the prefix.
CompareEnsureHexBuffer ==
  /\ util = NoUtilCall
  /\ \E text \in HexTexts :
       util' = [fn |-> "ensureHexBuffer2", text |-> text,
                ret1 |-> ensureHexBuffer(JsString(text)),
                ret2 |-> ensureHexBuffer(JsString(WithPrefix(text)))]
  /\ UNCHANGED <<dep, bls, calls, shared>>

\* The memory in reach of a caller of the utility functions: the buffers of
\* constants.ts, the caller's key and the buffers of its network info.
UtilMemory(key, networkInfo) ==
  WithFresh(CallMemory(JsUndefined, JsObject(networkInfo)), "withdrawalKey", key)

\* getWithdrawalCredentials(key) with the key a Buffer: the memory before and
\* after, the bytes written to creds and the value returned.
WriteWithdrawalCredentials ==
  /\ util = NoUtilCall
  /\ \E raw \in RawKeys :
       util' = [fn |-> "memory", of |-> "getWithdrawalCredentials",
                before |-> UtilMemory(raw, NETWORKS_MAINNET_GENESIS),
                after |-> getWithdrawalCredentials_Memory(
                            UtilMemory(raw, NETWORKS_MAINNET_GENESIS), "withdrawalKey"),
                made |-> CredentialsWrites(UtilMemory(raw, NETWORKS_MAINNET_GENESIS),
                                           "withdrawalKey")["creds"],
                ret |-> getWithdrawalCredentials(JsBuffer(raw))]
  /\ UNCHANGED <<dep, bls, calls, shared>>

\* buildSigningRoot (and with it buildDomain) with one of the DOMAINS and the
\* caller's network info: the memory before and after, the bytes written to
\* domain and the domain returned.
WriteSigningRoot ==
  /\ util = NoUtilCall
  /\ \E objectRoot \in ObjectRoots,
        domainType \in {"DOMAINS.DEPOSIT", "DOMAINS.BLS_TO_EXECUTION_CHANGE"},
        networkInfo \in UtilNetworkInfos :
       util' = [fn |-> "memory", of |-> "buildSigningRoot",
                before |-> UtilMemory(NoBuf, networkInfo),
                after |-> buildSigningRoot_Memory(
                            UtilMemory(NoBuf, networkInfo), objectRoot, domainType,
                            "networkInfo.forkVersion", "networkInfo.validatorsRoot"),
                made |-> DomainMade(UtilMemory(NoBuf, networkInfo), domainType,
                                    "networkInfo.forkVersion", "networkInfo.validatorsRoot"),
                ret |-> buildDomain(SharedMemory[domainType], networkInfo)]
  /\ UNCHANGED <<dep, bls, calls, shared>>

\* The call returns to its caller; the functions keep no state.
UtilReturn ==
  /\ util # NoUtilCall
  /\ util' = NoUtilCall
  /\ UNCHANGED <<dep, bls, calls, shared>>

UtilNext ==
  \/ CallGetWithdrawalCredentials
  \/ CallGetEthDepositWithdrawalCredentials
  \/ CompareWithdrawalCredentials
  \/ CallBuildDomain
  \/ CompareDomains
  \/ CallBuildSigningRoot
  \/ CallHashTreeRoot
  \/ CompareHashTreeRoots
  \/ CallEnsureHexBuffer
  \/ CompareEnsureHexBuffer
  \/ WriteWithdrawalCredentials
  \/ WriteSigningRoot
  \/ UtilReturn

UtilSpec == Init /\ [][UtilNext]_vars

(***************************************************************************)
(* The BLS-to-execution-change assembler with its signer.                  *)
(***************************************************************************)
\* Absent, null, empty, a 20-byte address with and without 0x, and an
\* address one byte short.
Eth1AddrOptions ==
  {JsUndefined,
   JsNull,
   JsString(<<>>),
   PrefixedHexString(Bytes(5, 20)),
   HexString(Bytes(6, 20)),
   PrefixedHexString(Bytes(5, 19))}

\* Absent, null, 0, 1 and 123456.
ValidatorIdxOptions ==
  {JsUndefined, JsNull, NumZero, Num(<<1>>), Num(<<1, 226, 64>>)}

BlsNetworkInfoOptions ==
  {JsUndefined} \cup {JsObject(n) : n \in ValidNetworkInfos \cup UtilNetworkInfos}

BlsOpts ==
  [eth1Addr : Eth1AddrOptions,
   validatorIdx : ValidatorIdxOptions,
   networkInfo : BlsNetworkInfoOptions]

BlsPaths == {JsArray(<<12381, 3600, 0, 0>>), JsArray(<<12381, 3600, 1, 0>>)}

\* generate(client, path, opts) of blsToExecution.ts: runs to the first await
\* or throws.
BlsGenerate ==
  /\ bls.pc = "idle"
  /\ \E path \in BlsPaths, opts \in BlsOpts :
       bls' = blsToExecution_Start(NewBlsCall("generate", path, opts))
  /\ UNCHANGED <<dep, util, calls, shared>>

\* generateObject(client, path, opts): runs to the first await or throws.
BlsGenerateObject ==
  /\ bls.pc = "idle"
  /\ \E path \in BlsPaths, opts \in BlsOpts :
       bls' = blsToExecution_Start(NewBlsCall("generateObject", path, opts))
  /\ UNCHANGED <<dep, util, calls, shared>>

\* client.getAddresses resolves with the withdrawal key.
BlsResolveKey ==
  /\ bls.pc = "awaitKey"
  /\ \E key \in SignerKeys :
       bls' = blsToExecution_OnKey(bls, AddressesResp(JsBuffer(key)))
  /\ UNCHANGED <<dep, util, calls, shared>>

\* client.sign resolves with a signature.
BlsResolveSign ==
  /\ bls.pc = "awaitSign"
  /\ \E pubkey \in SignerKeys, sig \in SignerSignatures :
       bls' = blsToExecution_OnSignature(bls, SignatureResp(pubkey, sig))
  /\ UNCHANGED <<dep, util, calls, shared>>

\* The pending signer request is rejected; the await throws.
BlsRejectRequest ==
  /\ \/ bls.pc = "awaitKey"
        /\ bls' = blsToExecution_OnKey(bls, RejectedResp)
     \/ bls.pc = "awaitSign"
        /\ bls' = blsToExecution_OnSignature(bls, RejectedResp)
  /\ UNCHANGED <<dep, util, calls, shared>>

BlsNext ==
  \/ BlsGenerate
  \/ BlsGenerateObject
  \/ BlsResolveKey
  \/ BlsResolveSign
  \/ BlsRejectRequest

BlsSpec == Init /\ [][BlsNext]_vars

(***************************************************************************)
(* The library as a whole: a caller runs one deposit call, or one BLS-to-  *)
(* execution-change call, or calls the utility functions.                  *)
(***************************************************************************)
LibraryNext ==
  \/ util = NoUtilCall /\ bls = IdleBls /\ Next
  \/ dep = IdleDeposit /\ bls = IdleBls /\ UtilNext
  \/ dep = IdleDeposit /\ util = NoUtilCall /\ BlsNext

LibrarySpec == Init /\ [][LibraryNext]_vars

(***************************************************************************)
(* Two call sites, each making one assembler call while the other's may be *)
(* suspended at an await.  A call runs from one await to the next without  *)
(* interruption (JavaScript runs a continuation to completion); between    *)
(* two continuations of one call, continuations of the other may run.  A   *)
(* call reads the buffers of constants.ts as memory holds them when it     *)
(* reads, and leaves its writes to them in memory.  Next to each call the  *)
(* state keeps the same call run alone: same arguments, same answers of    *)
(* the signer, memory as constants.ts made it.                             *)
(***************************************************************************)
\* The call with the buffers of constants.ts as memory holds them now; the
\* default networkInfo is the object of constants.ts itself, so its buffers
\* are read from memory.
InMemory(c, heap) ==
  [c EXCEPT !.heap = [r \in DOMAIN @ |-> IF r \in SharedRefs THEN heap[r] ELSE @[r]],
            !.networkInfo =
               IF c.opts.networkInfo.t = "undefined"
               THEN JsObject([NETWORKS_MAINNET_GENESIS EXCEPT
                       !.forkVersion = JsBuffer(heap["NETWORKS.MAINNET_GENESIS.forkVersion"]),
                       !.validatorsRoot =
                          JsBuffer(heap["NETWORKS.MAINNET_GENESIS.validatorsRoot"])])
               ELSE @]

\* The continuation of a deposit call after the await it is suspended at.
Deposit_Resume(c, resp) ==
  CASE c.pc = "awaitDepositKey" -> Entry_Resume(buildDepositData_OnDepositKey(c, resp))
    [] c.pc = "awaitWithdrawalKey" -> Entry_Resume(buildDepositData_OnWithdrawalKey(c, resp))
    [] c.pc = "awaitSign" -> Entry_Resume(buildDepositData_OnSignature(c, resp))
    [] OTHER -> c

\* The continuation of a BLS-to-execution-change call after its await.
Bls_Resume(c, resp) ==
  CASE c.pc = "awaitKey" -> blsToExecution_OnKey(c, resp)
    [] c.pc = "awaitSign" -> blsToExecution_OnSignature(c, resp)
    [] OTHER -> c

Call_Resume(kind, c, resp) ==
  IF kind = "deposit" THEN Deposit_Resume(c, resp) ELSE Bls_Resume(c, resp)

\* The call started at a call site.
Call_Start(kind, c) ==
  IF kind = "deposit" THEN Entry_Resume(buildDepositData_Start(c))
  ELSE blsToExecution_Start(c)

\* The call site's state once its call has run one continuation in the
\* memory all calls share, and the same continuation of the call run alone.
Started(kind, new) ==
  [kind |-> kind,
   c |-> Call_Start(kind, InMemory(new, shared)),
   alone |-> Call_Start(kind, new)]

Resumed(site, resp) ==
  [kind |-> site.kind,
   c |-> Call_Resume(site.kind, InMemory(site.c, shared), resp),
   alone |-> Call_Resume(site.kind, site.alone, resp)]

\* The buffers of constants.ts as the call's continuation left them.
SharedAfter(site) == Visible(site.c.heap, SharedRefs)

KeyAwaits == {"awaitDepositKey", "awaitWithdrawalKey", "awaitKey"}

\* Default options and a test network, with and without a withdrawal address.
ConcurrentDepositOpts ==
  [amountGwei : {JsUndefined},
   depositCliVersion : {JsUndefined},
   networkInfo : {JsUndefined,
                  JsObject(NetworkInfo(TestnetName, JsBuffer(Bytes(3, 4)),
                                       JsBuffer(Bytes(4, 32))))},
   withdrawTo : {JsUndefined, PrefixedHexString(Bytes(5, 20))}]

ConcurrentBlsOpts ==
  [eth1Addr : {PrefixedHexString(Bytes(5, 20))},
   validatorIdx : {NumZero, Num(<<1>>)},
   networkInfo : {JsUndefined,
                  JsObject(NetworkInfo(TestnetName, JsBuffer(Bytes(3, 4)),
                                       JsBuffer(Bytes(4, 32))))}]

ConcurrentKeys == {Bytes(1, 48), Bytes(2, 48)}

ConcurrentSignatures == {Bytes(9, 96)}

\* A call site calls generate of depositData.ts.
ConcurrentDeposit ==
  /\ \E s \in CallSites, entry \in {"generate"}, opts \in ConcurrentDepositOpts :
       /\ calls[s] = NoCall
       /\ LET site == Started("deposit",
                              [NewDepositCall(JsArray(<<12381, 3600, 0, 0, 0>>), opts)
                                 EXCEPT !.entry = entry])
          IN /\ calls' = [calls EXCEPT ![s] = site]
             /\ shared' = SharedAfter(site)
  /\ UNCHANGED <<dep, util, bls>>

\* A call site calls generateObject for a BLS-to-execution change.
ConcurrentBls ==
  /\ \E s \in CallSites, entry \in {"generateObject"}, opts \in ConcurrentBlsOpts :
       /\ calls[s] = NoCall
       /\ LET site == Started("bls", NewBlsCall(entry, JsArray(<<12381, 3600, 0, 0>>), opts))
          IN /\ calls' = [calls EXCEPT ![s] = site]
             /\ shared' = SharedAfter(site)
  /\ UNCHANGED <<dep, util, bls>>

\* client.getAddresses resolves for one of the calls awaiting a key.
ConcurrentResolveKey ==
  /\ \E s \in CallSites, key \in ConcurrentKeys :
       /\ calls[s] # NoCall
       /\ calls[s].c.pc \in KeyAwaits
       /\ LET site == Resumed(calls[s], AddressesResp(JsBuffer(key)))
          IN /\ calls' = [calls EXCEPT ![s] = site]
             /\ shared' = SharedAfter(site)
  /\ UNCHANGED <<dep, util, bls>>

\* The key the signer resolved at the path the call signs with.
SigningKeyOf(site) ==
  IF site.kind = "deposit" THEN site.c.depositKey ELSE site.c.blsWithdrawalPub

\* client.sign resolves for one of the calls awaiting a signature, with the
\* key the signer holds at the call's path.
ConcurrentResolveSign ==
  /\ \E s \in CallSites, sig \in ConcurrentSignatures :
       /\ calls[s] # NoCall
       /\ calls[s].c.pc = "awaitSign"
       /\ LET site == Resumed(calls[s], SignatureResp(SigningKeyOf(calls[s]), sig))
          IN /\ calls' = [calls EXCEPT ![s] = site]
             /\ shared' = SharedAfter(site)
  /\ UNCHANGED <<dep, util, bls>>

\* The pending signer request of one of the calls is rejected.
ConcurrentReject ==
  /\ \E s \in CallSites :
       /\ calls[s] # NoCall
       /\ calls[s].c.pc \in KeyAwaits \cup {"awaitSign"}
       /\ LET site == Resumed(calls[s], RejectedResp)
          IN /\ calls' = [calls EXCEPT ![s] = site]
             /\ shared' = SharedAfter(site)
  /\ UNCHANGED <<dep, util, bls>>

ConcurrentNext ==
  \/ ConcurrentDeposit
  \/ ConcurrentBls
  \/ ConcurrentResolveKey
  \/ ConcurrentResolveSign
  \/ ConcurrentReject

ConcurrentSpec == Init /\ [][ConcurrentNext]_vars


(***************************************************************************)
(* Properties of the withdrawal-credential encoders.                       *)
(***************************************************************************)
CredentialCall == util.fn \in {"getWithdrawalCredentials", "getEthDepositWithdrawalCredentials"}

ZeroByte == [lit |-> <<0>>]

OneByte == [lit |-> <<1>>]

\* C3: for a 48-byte key, either encoder returns 32 bytes: byte 0 is 0x00 and
\* bytes 1..31 are bytes 1..31 of the SHA-256 digest of the key (the first
\* byte of the digest is dropped, the rest keep their positions).
C3_BlsCredentials ==
  (CredentialCall /\ BufLen(util.raw) = 48) =>
    /\ util.ret.ok
    /\ BufLen(util.ret.val) = 32
    /\ ByteAt(util.ret.val, 0) = ZeroByte
    /\ \A i \in 1..31 : ByteAt(util.ret.val, i) = ByteAt(sha256(util.raw), i)

C3_Witness ==
  /\ util.fn = "getEthDepositWithdrawalCredentials"
  /\ BufLen(util.raw) = 48
  /\ util.key.t = "string"
  /\ util.ret.ok
  /\ ByteAt(util.ret.val, 31) = ByteAt(sha256(util.raw), 31)

C5_OtherLengthsFail ==
  CredentialCall =>
    /\ BufLen(util.raw) \notin {20, 48} => util.ret = Err(ERR_WITHDRAWAL_KEY)
    /\ BufLen(util.raw) = 48 => util.ret.ok /\ ByteAt(util.ret.val, 0) = ZeroByte
    /\ BufLen(util.raw) = 20 => util.ret.ok /\ ByteAt(util.ret.val, 0) = OneByte

C5_Witness ==
  /\ util.fn = "getWithdrawalCredentials"
  /\ BufLen(util.raw) = 49
  /\ util.ret = Err(ERR_WITHDRAWAL_KEY)

(***************************************************************************)
(* Properties of buildDomain and buildSigningRoot.                         *)
(***************************************************************************)
\* A network info with a 4-byte fork version and a 32-byte validators root.
ValidNetworkInfo(networkInfo) ==
  /\ networkInfo.forkVersion.t = "buffer"
  /\ BufLen(networkInfo.forkVersion.buf) = 4
  /\ networkInfo.validatorsRoot.t = "buffer"
  /\ BufLen(networkInfo.validatorsRoot.buf) = 32

\* The root of the fork-data record written out: the hash of the fork
\* version, right-padded to 32 bytes, followed by the validators root.
ExpectedForkDataRoot(networkInfo) ==
  sha256(Concat(Concat(networkInfo.forkVersion.buf, Alloc(28)),
                networkInfo.validatorsRoot.buf))

\* C6: for a 4-byte domain type and a valid network info, buildDomain returns
\* 32 bytes: bytes 0..3 are the domain type and bytes 4..31 are the first 28
\* bytes of the root of {current_version, genesis_validators_root}.
C6_DomainLayout ==
  (util.fn = "buildDomain" /\ ValidNetworkInfo(util.networkInfo)) =>
    /\ util.ret.ok
    /\ BufLen(util.ret.val) = 32
    /\ \A i \in 0..3 : ByteAt(util.ret.val, i) = ByteAt(util.domainType, i)
    /\ \A i \in 4..31 :
         ByteAt(util.ret.val, i) = ByteAt(ExpectedForkDataRoot(util.networkInfo), i - 4)

C6_Witness ==
  /\ util.fn = "buildDomain"
  /\ ValidNetworkInfo(util.networkInfo)
  /\ util.networkInfo.forkVersion.buf # Alloc(4)
  /\ util.domainType = DOMAINS_DEPOSIT
  /\ util.ret.ok
  /\ ByteAt(util.ret.val, 31) = ByteAt(ExpectedForkDataRoot(util.networkInfo), 27)

\* C7: for a valid network info, two distinct domain-type constants give
\* different domains, which differ within bytes 0..3 and agree on bytes
\* 4..31.
C7_DomainSeparation ==
  (/\ util.fn = "buildDomain2"
   /\ ValidNetworkInfo(util.networkInfo)
   /\ util.domainType1 # util.domainType2) =>
    /\ util.ret1.ok /\ util.ret2.ok
    /\ util.ret1.val # util.ret2.val
    /\ \E i \in 0..3 : ByteAt(util.ret1.val, i) # ByteAt(util.ret2.val, i)
    /\ \A i \in 4..31 : ByteAt(util.ret1.val, i) = ByteAt(util.ret2.val, i)

C7_Witness ==
  /\ util.fn = "buildDomain2"
  /\ ValidNetworkInfo(util.networkInfo)
  /\ util.domainType1 = DOMAINS_DEPOSIT
  /\ util.domainType2 = DOMAINS_VOLUNTARY_EXIT
  /\ util.ret1.ok /\ util.ret2.ok
  /\ util.ret1.val # util.ret2.val

\* C8: for a 32-byte object root, a domain type and a valid network info,
\* buildSigningRoot returns the root of {object_root, domain} in that order:
\* the hash of the object root followed by buildDomain's domain.
C8_SigningRoot ==
  (/\ util.fn = "buildSigningRoot"
   /\ BufLen(util.objectRoot) = 32
   /\ ValidNetworkInfo(util.networkInfo)) =>
    /\ util.ret.ok
    /\ BufLen(util.ret.val) = 32
    /\ util.ret.val =
         sha256(Concat(util.objectRoot,
                       Concat(util.domainType,
                              Slice(ExpectedForkDataRoot(util.networkInfo), 0, 28))))

C8_Witness ==
  /\ util.fn = "buildSigningRoot"
  /\ BufLen(util.objectRoot) = 32
  /\ ValidNetworkInfo(util.networkInfo)
  /\ util.domainType = DOMAINS_BLS_TO_EXECUTION_CHANGE
  /\ util.ret.ok
  /\ util.ret.val = sha256(Concat(util.objectRoot,
                                  buildDomain(util.domainType, util.networkInfo).val))

(***************************************************************************)
(* Properties of the record roots.                                         *)
(***************************************************************************)
\* The hash of two adjacent 32-byte nodes.
HashOfPair(left, right) == sha256(Concat(left, right))

\* The leaf of a byte-vector field: the bytes themselves, right-padded with
\* zeros, when they fit 32 bytes; else the root of their 32-byte chunks.
ExpectedBytesLeaf(bytes) ==
  IF BufLen(bytes) <= 32 THEN Concat(bytes, Alloc(32 - BufLen(bytes)))
  ELSE IF BufLen(bytes) <= 64
  THEN HashOfPair(Slice(bytes, 0, 32),
                  Concat(Slice(bytes, 32, BufLen(bytes)), Alloc(64 - BufLen(bytes))))
  ELSE HashOfPair(HashOfPair(Slice(bytes, 0, 32), Slice(bytes, 32, 64)),
                  HashOfPair(Concat(Slice(bytes, 64, BufLen(bytes)), Alloc(96 - BufLen(bytes))),
                             Alloc(32)))

\* The leaf of a u64 field: byte i is digit i of the number in base 256,
\* lowest digit first, for the 8 bytes of the encoding; zeros after them.
ExpectedUintLeaf(n) ==
  <<[lit |-> [i \in 1..32 |->
                IF i <= 8 /\ i <= Len(n.mag) THEN n.mag[Len(n.mag) + 1 - i] ELSE 0]]>>

\* One leaf per field of the record, in the order of its declaration.
ExpectedLeaves(record, value) ==
  CASE record = "forkData" ->
         <<ExpectedBytesLeaf(value.current_version),
           ExpectedBytesLeaf(value.genesis_validators_root)>>
    [] record = "signingData" ->
         <<ExpectedBytesLeaf(value.object_root),
           ExpectedBytesLeaf(value.domain)>>
    [] record = "depositMessage" ->
         <<ExpectedBytesLeaf(value.pubkey),
           ExpectedBytesLeaf(value.withdrawal_credentials),
           ExpectedUintLeaf(value.amount)>>
    [] record = "depositData" ->
         <<ExpectedBytesLeaf(value.pubkey),
           ExpectedBytesLeaf(value.withdrawal_credentials),
           ExpectedUintLeaf(value.amount),
           ExpectedBytesLeaf(value.signature)>>
    [] record = "blsToExecutionChange" ->
         <<ExpectedUintLeaf(value.validator_index),
           ExpectedBytesLeaf(value.from_bls_pubkey),
           ExpectedBytesLeaf(value.to_execution_address)>>

\* The leaves padded with zero leaves to the next power of two and hashed
\* pairwise, left to right, up to one root.
ExpectedRoot(leaves) ==
  IF Len(leaves) = 2 THEN HashOfPair(leaves[1], leaves[2])
  ELSE IF Len(leaves) = 3
  THEN HashOfPair(HashOfPair(leaves[1], leaves[2]), HashOfPair(leaves[3], Alloc(32)))
  ELSE HashOfPair(HashOfPair(leaves[1], leaves[2]), HashOfPair(leaves[3], leaves[4]))

\* C9: the root of each of the five records is the root over one 32-byte
\* leaf per field in declaration order, the leaf list padded with zero leaves
\* to the next power of two and hashed pairwise; a u64 field contributes its
\* 8-byte little-endian encoding right-padded with zeros to 32 bytes.
C9_RecordRoots ==
  util.fn = "hashTreeRoot" =>
    /\ util.ret.ok
    /\ BufLen(util.ret.val) = 32
    /\ util.ret.val = ExpectedRoot(ExpectedLeaves(util.record, util.value))

\* The leaf of 32000000000 (0x0773594000), byte by byte.
DefaultAmountLeaf ==
  <<[lit |-> <<0, 64, 89, 115, 7, 0, 0, 0>> \o [i \in 1..24 |-> 0]]>>

C9_Witness ==
  /\ util.fn = "hashTreeRoot"
  /\ util.record = "depositMessage"
  /\ util.value.amount = DEFAULT_AMOUNT_GWEI
  /\ util.ret.ok
  /\ util.ret.val =
       HashOfPair(HashOfPair(ExpectedBytesLeaf(util.value.pubkey),
                             util.value.withdrawal_credentials),
                  HashOfPair(DefaultAmountLeaf, Alloc(32)))

\* C10: with the hash collision-free, two roots of one record type are equal
\* exactly when all field values are equal (so changing one field value, or
\* swapping two different values between fields of the same width, changes
\* the root); and the credentials of two keys are equal exactly when the
\* keys are equal.
C10_RootsInjective ==
  /\ util.fn = "hashTreeRoot2" =>
       /\ util.ret1.ok /\ util.ret2.ok
       /\ (util.ret1.val = util.ret2.val) <=> (util.value1 = util.value2)
  /\ (util.fn = "getWithdrawalCredentials2" /\ util.ret1.ok /\ util.ret2.ok) =>
       ((util.ret1.val = util.ret2.val) <=> (util.raw1 = util.raw2))

\* Two signing-data records whose fields hold each other's values.
C10_Witness ==
  /\ util.fn = "hashTreeRoot2"
  /\ util.record = "signingData"
  /\ util.value1.object_root # util.value1.domain
  /\ util.value2.object_root = util.value1.domain
  /\ util.value2.domain = util.value1.object_root
  /\ util.ret1.ok /\ util.ret2.ok
  /\ util.ret1.val # util.ret2.val

(***************************************************************************)
(* Properties of the deposit assembler.                                    *)
(***************************************************************************)
\* The positions in the call's log of the events of one kind.
EventsOf(ev) == {k \in 1..Len(dep.io) : dep.io[k].ev = ev}

\* The deposit key as the signer resolved it: the answer to the first
\* request of the call.
ResolvedDepositKey == dep.io[2].pubs0.buf

\* The signing root written out: the hash of the object root followed by
\* the domain type and the first 28 bytes of the fork-data root.
ExpectedSigningRoot(objectRoot, domainType, networkInfo) ==
  sha256(Concat(objectRoot,
                Concat(domainType, Slice(ExpectedForkDataRoot(networkInfo), 0, 28))))

DepositDomainType == <<[lit |-> <<3, 0, 0, 0>>]>>

\* The credentials of a withdrawal key written out.
ExpectedCredentials(key) ==
  IF BufLen(key) = 48
  THEN Concat(<<ZeroByte>>, Slice(sha256(key), 1, 32))
  ELSE Concat(<<OneByte>>, Concat(Alloc(11), key))

\* C1: the assembler sends at most one sign request; its payload is the
\* signing root, under the domain type 0x03000000 and the call's network
\* info, of the root of {pubkey = resolved deposit key, withdrawal_credentials
\* = encoded credentials, amount = amountGwei} in that order; its path is the
\* path of the request that resolved the deposit key.
C1_SignRequest ==
  /\ Cardinality(EventsOf("sign")) <= 1
  /\ \A k \in EventsOf("sign") :
       /\ dep.io[1].ev = "getAddresses"
       /\ dep.io[2].ev = "addresses"
       /\ dep.io[k].signerPath = dep.io[1].startPath
       /\ dep.withdrawalCreds = ExpectedCredentials(dep.withdrawalKeyBuf)
       /\ dep.io[k].payload =
            ExpectedSigningRoot(
              ExpectedRoot(<<ExpectedBytesLeaf(ResolvedDepositKey),
                             dep.withdrawalCreds,
                             ExpectedUintLeaf(dep.amountGwei)>>),
              DepositDomainType, dep.networkInfo.v)

C1_Witness ==
  /\ dep.pc = "awaitSign"
  /\ Len(dep.io) = 5
  /\ dep.io[5].ev = "sign"
  /\ dep.io[5].signerPath = <<12381, 3600, 0, 0, 0>>
  /\ dep.opts.networkInfo.t = "object"
  /\ BufLen(dep.io[5].payload) = 32
  /\ BufLen(dep.withdrawalCreds) = 32

\* C2: a record is returned only when the key returned with the signature
\* equals, byte for byte, the resolved deposit key; when the two differ the
\* call fails with the signer-mismatch error, no deposit data root has been
\* computed and no record is returned.
C2_SignerMismatch ==
  \A k \in EventsOf("signature") :
    /\ dep.pc \in {"returned", "thrown"}
    /\ dep.pc = "returned" => dep.io[k].pubkey = ResolvedDepositKey
    /\ dep.io[k].pubkey # ResolvedDepositKey =>
         /\ dep.pc = "thrown"
         /\ dep.result = Err(ERR_SIGNER)
         /\ dep.output = Err(ERR_SIGNER)
         /\ dep.depositDataRoot = NoBuf

C2_Witness ==
  /\ EventsOf("signature") # {}
  /\ \E k \in EventsOf("signature") :
       /\ dep.io[k].pubkey # ResolvedDepositKey
       /\ BufLen(dep.io[k].pubkey) = BufLen(ResolvedDepositKey)
  /\ dep.result = Err(ERR_SIGNER)

(***************************************************************************)
(* Properties of the deposit assembler's checks and of its record.         *)
(***************************************************************************)
\* The call has run its checks.
DepositStarted == dep.pc # "idle"

\* The call was rejected by its checks, before any request to the signer.
RejectedBeforeSigner == dep.pc = "thrown" /\ dep.io = <<>>

\* 1 <= amountGwei <= 2^64 - 1
AmountInRange(n) == ~n.neg /\ n.mag # <<>> /\ Len(n.mag) <= 8

\* The parameters other than the amount pass the checks.
OtherParamsValid ==
  /\ ~Falsy(dep.path)
  /\ ~Falsy(dep.depositCliVersion)
  /\ ~Falsy(dep.networkInfo.v.networkName)
  /\ ValidNetworkInfo(dep.networkInfo.v)

\* C11: an amount of 0, a negative amount and an amount of 2^64 or more are
\* rejected before any signer call; an amount from 1 to 2^64 - 1 is accepted
\* (the call goes on to the signer) and a record returned carries exactly
\* that amount.
C11_AmountBounds ==
  DepositStarted =>
    /\ ~AmountInRange(dep.amountGwei) => RejectedBeforeSigner
    /\ (AmountInRange(dep.amountGwei) /\ OtherParamsValid) =>
         /\ ~RejectedBeforeSigner
         /\ dep.pc = "returned" => dep.result.val.v.amount = dep.amountGwei

\* What the code does hold to: the same with the accepted range cut at 2^53.
C11_BelowTwoPow53 ==
  DepositStarted =>
    /\ (~AmountInRange(dep.amountGwei) \/ AtLeastTwoPow53(dep.amountGwei)) =>
         RejectedBeforeSigner
    /\ (/\ AmountInRange(dep.amountGwei)
        /\ ~AtLeastTwoPow53(dep.amountGwei)
        /\ OtherParamsValid) =>
         /\ ~RejectedBeforeSigner
         /\ dep.pc = "returned" => dep.result.val.v.amount = dep.amountGwei

C11_Witness ==
  /\ dep.amountGwei = Num(<<255, 255, 255, 255, 255, 255, 248, 0>>)
  /\ OtherParamsValid
  /\ dep.pc = "thrown"
  /\ dep.io = <<>>
  /\ dep.result = Err(ERR_BN_ASSERT)


\* The built-in network info as the claim has it: fork version 0x00000000
\* and a validators root of 32 zero bytes.
ZeroRootMainnet ==
  [forkVersion |-> JsBuffer(Alloc(4)), validatorsRoot |-> JsBuffer(Alloc(32))]

\* C12: when the caller passes no networkInfo, the payload of the sign
\* request is the signing root under fork version 0x00000000 and a validators
\* root of 32 zero bytes, and the record returned has fork_version
\* '00000000' and network_name 'mainnet'.
C12_DefaultNetwork ==
  (DepositStarted /\ dep.opts.networkInfo = JsUndefined) =>
    /\ \A k \in EventsOf("sign") :
         dep.io[k].payload =
           ExpectedSigningRoot(
             ExpectedRoot(<<ExpectedBytesLeaf(ResolvedDepositKey),
                            dep.withdrawalCreds,
                            ExpectedUintLeaf(dep.amountGwei)>>),
             DepositDomainType, ZeroRootMainnet)
    /\ dep.pc = "returned" =>
         /\ dep.result.val.v.fork_version = Str(<<"0", "0", "0", "0", "0", "0", "0", "0">>)
         /\ dep.result.val.v.network_name = JsString(Str(<<"m", "a", "i", "n", "n", "e", "t">>))

\* What the code does hold to: the payload is built with the validators root
\* of constants.ts, 4b36...fe95, and the record names mainnet.
C12_DefaultNetworkAsCoded ==
  (DepositStarted /\ dep.opts.networkInfo = JsUndefined) =>
    /\ \A k \in EventsOf("sign") :
         dep.io[k].payload =
           ExpectedSigningRoot(
             ExpectedRoot(<<ExpectedBytesLeaf(ResolvedDepositKey),
                            dep.withdrawalCreds,
                            ExpectedUintLeaf(dep.amountGwei)>>),
             DepositDomainType,
             [forkVersion |-> JsBuffer(Alloc(4)),
              validatorsRoot |-> JsBuffer(HexDecode(MAINNET_VALIDATORS_ROOT_HEX))])
    /\ dep.pc = "returned" =>
         /\ dep.result.val.v.fork_version = Str(<<"0", "0", "0", "0", "0", "0", "0", "0">>)
         /\ dep.result.val.v.network_name = JsString(Str(<<"m", "a", "i", "n", "n", "e", "t">>))

C12_Witness ==
  /\ dep.opts.networkInfo = JsUndefined
  /\ dep.pc = "returned"
  /\ EventsOf("sign") # {}
  /\ dep.networkInfo.v.validatorsRoot.buf # Alloc(32)
  /\ dep.result.val.v.fork_version = Str(<<"0", "0", "0", "0", "0", "0", "0", "0">>)


\* The bytes the caller's withdrawTo stands for.
DecodedWithdrawTo ==
  CHOOSE raw \in {Bytes(5, 20), Bytes(6, 48), Bytes(5, 19)} : dep.withdrawTo \in KeyForms(raw)

\* A path without its last index.
ParentPath(path) == [i \in 1..(Len(path) - 1) |-> path[i]]

C13_WitnessWithdrawTo ==
  /\ dep.withdrawTo = PrefixedHexString(Bytes(5, 20))
  /\ dep.pc = "awaitSign"
  /\ Cardinality(EventsOf("getAddresses")) = 1
  /\ dep.withdrawalCreds = Concat(<<OneByte>>, Concat(Alloc(11), Bytes(5, 20)))


\* The signature the signer returned: the last event of a call that returned.
ReturnedSignature == dep.io[Len(dep.io)].sig

\* C14: in a call that returned, deposit_data_root is the root of {pubkey,
\* withdrawal_credentials, amount, signature}, the first three being the
\* values under the deposit message root and the fourth the signature the
\* signer returned; the record's signature is the hex of that signature.
C14_DepositDataRoot ==
  dep.pc = "returned" =>
    /\ dep.io[Len(dep.io)].ev = "signature"
    /\ dep.depositMessageRoot =
         ExpectedRoot(<<ExpectedBytesLeaf(ResolvedDepositKey),
                        dep.withdrawalCreds,
                        ExpectedUintLeaf(dep.amountGwei)>>)
    /\ dep.depositDataRoot =
         ExpectedRoot(<<ExpectedBytesLeaf(ResolvedDepositKey),
                        dep.withdrawalCreds,
                        ExpectedUintLeaf(dep.amountGwei),
                        ExpectedBytesLeaf(ReturnedSignature)>>)
    /\ HexDecode(dep.result.val.v.deposit_data_root) = dep.depositDataRoot
    /\ HexDecode(dep.result.val.v.signature) = ReturnedSignature
    /\ BufLen(dep.result.val.v.signature) = 2 * BufLen(ReturnedSignature)

\* The signature of seed 1 starts with the bytes 0x91 0x92.
C14_Witness ==
  /\ dep.pc = "returned"
  /\ ReturnedSignature = Bytes(9, 96)
  /\ Slice(dep.result.val.v.signature, 0, 4) = Str(<<"9", "1", "9", "2">>)
  /\ dep.depositDataRoot # dep.depositMessageRoot


\* The value of an option, or the given default when the caller left it out.
Supplied(option, default) == IF option = JsUndefined THEN default ELSE option

\* The hex text of a buffer without prefix: twice as many characters as
\* bytes, decoding to the bytes.
IsPlainHexOf(text, bytes) ==
  /\ BufLen(text) = 2 * BufLen(bytes)
  /\ HexDecode(text) = bytes

\* C15: the record returned has the nine fields pubkey,
\* withdrawal_credentials, amount, signature, deposit_message_root,
\* deposit_data_root, fork_version, network_name, deposit_cli_version in
\* this order; its byte fields are hex without 0x; amount is the amountGwei
\* passed (default 32000000000); fork_version and network_name are those of
\* the network info used for signing; deposit_cli_version is the version
\* passed (default '2.3.0').
C15_RecordFields ==
  dep.pc = "returned" =>
    /\ dep.result.ok
    /\ dep.result.val.keys =
         <<"pubkey", "withdrawal_credentials", "amount", "signature",
           "deposit_message_root", "deposit_data_root", "fork_version",
           "network_name", "deposit_cli_version">>
    /\ DOMAIN dep.result.val.v =
         {dep.result.val.keys[i] : i \in 1..Len(dep.result.val.keys)}
    /\ IsPlainHexOf(dep.result.val.v.pubkey, ResolvedDepositKey)
    /\ IsPlainHexOf(dep.result.val.v.withdrawal_credentials, dep.withdrawalCreds)
    /\ IsPlainHexOf(dep.result.val.v.signature, ReturnedSignature)
    /\ IsPlainHexOf(dep.result.val.v.deposit_message_root, dep.depositMessageRoot)
    /\ IsPlainHexOf(dep.result.val.v.deposit_data_root, dep.depositDataRoot)
    /\ dep.result.val.v.amount =
         Supplied(dep.opts.amountGwei, Num(<<7, 115, 89, 64, 0>>))
    /\ \A k \in EventsOf("sign") :
         dep.io[k].payload =
           ExpectedSigningRoot(dep.depositMessageRoot, DepositDomainType, dep.networkInfo.v)
    /\ IsPlainHexOf(dep.result.val.v.fork_version, dep.networkInfo.v.forkVersion.buf)
    /\ dep.result.val.v.network_name = dep.networkInfo.v.networkName
    /\ dep.result.val.v.deposit_cli_version =
         Supplied(dep.opts.depositCliVersion, JsString(Str(<<"2", ".", "3", ".", "0">>)))

C15_Witness ==
  /\ dep.pc = "returned"
  /\ dep.opts.amountGwei = JsUndefined
  /\ dep.opts.depositCliVersion = JsUndefined
  /\ dep.opts.networkInfo # JsUndefined
  /\ dep.result.val.v.amount = Num(<<7, 115, 89, 64, 0>>)
  /\ dep.result.val.v.network_name = TestnetName
  /\ Len(dep.result.val.keys) = 9


(***************************************************************************)
(* Properties of the calldata of generate.                                 *)
(***************************************************************************)
\* The number a big-endian sequence of bytes holds.
RECURSIVE BigEndianValue(_)
BigEndianValue(bytes) ==
  IF bytes = <<>> THEN 0
  ELSE 256 * BigEndianValue(SubSeq(bytes, 1, Len(bytes) - 1)) + bytes[Len(bytes)]

\* The word at a byte offset of the encoding, as a number.
WordAt(data, offset) == BigEndianValue(Slice(data, offset, offset + 32)[1].lit)

\* Decoding a dynamic bytes value: the head word at headOffset gives the
\* offset of its tail; the tail is its length, then its bytes.
DecodedBytes(data, headOffset) ==
  Slice(data, WordAt(data, headOffset) + 32,
        WordAt(data, headOffset) + 32 + WordAt(data, WordAt(data, headOffset)))

\* The bytes after the 4-byte selector of a calldata string.
CalldataArgs(calldata) == HexDecode(Slice(calldata, 10, BufLen(calldata)))

C16_ObjectEntry ==
  (dep.entry = "generateObject" /\ dep.pc = "returned") => dep.output = dep.result

BlsStarted == bls.pc # "idle"

Eth1AddrAbsent == bls.opts.eth1Addr \in {JsUndefined, JsNull, JsString(<<>>)}

ValidatorIdxAbsent == bls.opts.validatorIdx \in {JsUndefined, JsNull}

BlsRejectedBeforeSigner == bls.pc = "thrown" /\ bls.io = <<>>

C17_MissingParameters ==
  BlsStarted =>
    /\ Eth1AddrAbsent =>
         BlsRejectedBeforeSigner /\ bls.result = Err(ERR_NO_ETH1_ADDR)
    /\ ~Eth1AddrAbsent /\ ValidatorIdxAbsent =>
         BlsRejectedBeforeSigner /\ bls.result = Err(ERR_NO_VALIDATOR_IDX)
    /\ bls.result \in {Err(ERR_NO_ETH1_ADDR), Err(ERR_NO_VALIDATOR_IDX)} =>
         Eth1AddrAbsent \/ ValidatorIdxAbsent

\* generateObject has refused a call whose address is
\* present and whose validator index is null.
C17_Witness ==
  /\ bls.entry = "generateObject"
  /\ bls.opts.eth1Addr = PrefixedHexString(Bytes(5, 20))
  /\ bls.opts.validatorIdx = JsNull
  /\ BlsRejectedBeforeSigner
  /\ bls.result = Err(ERR_NO_VALIDATOR_IDX)

\* The empty address is refused as an absent one.
C17_WitnessEmptyAddress ==
  /\ bls.entry = "generate"
  /\ bls.opts.eth1Addr = JsString(<<>>)
  /\ bls.opts.validatorIdx = NumZero
  /\ BlsRejectedBeforeSigner
  /\ bls.result = Err(ERR_NO_ETH1_ADDR)


(***************************************************************************)
(* C18: the BLS-to-execution-change assembler sends at most one sign       *)
(* request; its payload is the signing root, under the domain type         *)
(* 0x0A000000 and the call's network info, of the root of {validator_index *)
(* = validatorIdx as u64, from_bls_pubkey = the key the signer resolved    *)
(* for the path, to_execution_address = the decoded eth1Addr} in that      *)
(* order; its path is the path of the key resolution.                      *)
(***************************************************************************)
BlsEventsOf(ev) == {k \in 1..Len(bls.io) : bls.io[k].ev = ev}

BlsDomainType == <<[lit |-> <<10, 0, 0, 0>>]>>

\* The bytes the caller's eth1Addr stands for.
DecodedEth1Addr ==
  CHOOSE raw \in {Bytes(5, 20), Bytes(6, 20), Bytes(5, 19)} :
    bls.opts.eth1Addr \in {HexString(raw), PrefixedHexString(raw)}

\* The network info the call signs under: the one supplied, else the
\* built-in mainnet one.
BlsNetworkInfo ==
  IF bls.opts.networkInfo = JsUndefined THEN NETWORKS_MAINNET_GENESIS
  ELSE bls.opts.networkInfo.v

C18_BlsSignRequest ==
  /\ Cardinality(BlsEventsOf("sign")) <= 1
  /\ \A k \in BlsEventsOf("sign") :
       /\ k = 3
       /\ bls.io[1] = GetAddressesReq(bls.path.v)
       /\ bls.io[2].ev = "addresses"
       /\ bls.io[k].signerPath = bls.io[1].startPath
       /\ bls.io[k].payload =
            ExpectedSigningRoot(
              ExpectedRoot(<<ExpectedUintLeaf(bls.opts.validatorIdx),
                             ExpectedBytesLeaf(bls.io[2].pubs0.buf),
                             ExpectedBytesLeaf(DecodedEth1Addr)>>),
              BlsDomainType, BlsNetworkInfo)

\* generate has sent its sign request for validator 123456 under a supplied
\* network info, with an address written without 0x.
C18_Witness ==
  /\ bls.pc = "awaitSign"
  /\ bls.entry = "generate"
  /\ Len(bls.io) = 3
  /\ bls.io[3].ev = "sign"
  /\ bls.io[3].signerPath = <<12381, 3600, 1, 0>>
  /\ bls.opts.validatorIdx = Num(<<1, 226, 64>>)
  /\ bls.opts.eth1Addr = HexString(Bytes(6, 20))
  /\ bls.opts.networkInfo.t = "object"
  /\ BufLen(bls.io[3].payload) = 32


(***************************************************************************)
(* C19: every record the BLS-to-execution-change assembler emits holds the *)
(* message {validator_index = the supplied index in base 10,               *)
(* from_bls_pubkey and to_execution_address = 0x and the hex of the values *)
(* hashed}, the signature = 0x and the hex of the signer's signature, and  *)
(* the metadata {network_name, genesis_validators_root,                    *)
(* deposit_cli_version} of the network info signed under.                  *)
(***************************************************************************)
BlsEmitted == bls.pc = "returned"

\* The record emitted: the object returned, or the object the JSON text
\* returned renders.
EmittedRecord ==
  IF bls.result.val.t = "string" THEN bls.result.val.json ELSE bls.result.val

HasKey(record, key) == \E i \in 1..Len(record.keys) : record.keys[i] = key

\* The supplied validator index written in base 10.
ExpectedIndexString ==
  CASE bls.opts.validatorIdx = NumZero -> Str(<<"0">>)
    [] bls.opts.validatorIdx = Num(<<1>>) -> Str(<<"1">>)
    [] bls.opts.validatorIdx = Num(<<1, 226, 64>>) -> Str(<<"1", "2", "3", "4", "5", "6">>)

\* s is 0x followed by the hex digits of buf.
IsPrefixedHexOf(s, buf) == JsString(s) = PrefixedHexString(buf)

MessageAsClaimed ==
  /\ HasKey(EmittedRecord, "message")
  /\ EmittedRecord.v.message.keys =
       <<"validator_index", "from_bls_pubkey", "to_execution_address">>
  /\ EmittedRecord.v.message.v.validator_index = ExpectedIndexString
  /\ IsPrefixedHexOf(EmittedRecord.v.message.v.from_bls_pubkey, bls.io[2].pubs0.buf)
  /\ IsPrefixedHexOf(EmittedRecord.v.message.v.to_execution_address, DecodedEth1Addr)

SignatureAsClaimed ==
  /\ HasKey(EmittedRecord, "signature")
  /\ IsPrefixedHexOf(EmittedRecord.v.signature, bls.io[Len(bls.io)].sig)

MetadataAsClaimed ==
  /\ HasKey(EmittedRecord, "metadata")
  /\ EmittedRecord.v.metadata.keys =
       <<"network_name", "genesis_validators_root", "deposit_cli_version">>
  /\ EmittedRecord.v.metadata.v.network_name = BlsNetworkInfo.networkName
  /\ IsPrefixedHexOf(EmittedRecord.v.metadata.v.genesis_validators_root,
                     BlsNetworkInfo.validatorsRoot.buf)
  /\ EmittedRecord.v.metadata.v.deposit_cli_version.t = "string"

C19_BlsRecord ==
  BlsEmitted => MessageAsClaimed /\ SignatureAsClaimed /\ MetadataAsClaimed

\* What the code does: the message and the signature are as stated in every
\* record; the metadata is in the records of generateObject and in none of
\* generate.
C19_BlsRecordAsCoded ==
  BlsEmitted =>
    /\ MessageAsClaimed
    /\ SignatureAsClaimed
    /\ bls.entry = "generateObject" => MetadataAsClaimed
    /\ bls.entry = "generate" => ~HasKey(EmittedRecord, "metadata")

\* generate has emitted the record of validator 123456.
C19_Witness ==
  /\ BlsEmitted
  /\ bls.entry = "generate"
  /\ bls.opts.validatorIdx = Num(<<1, 226, 64>>)
  /\ EmittedRecord.keys = <<"message", "signature">>

\* generateObject has emitted a record with its metadata.
C19_WitnessObject ==
  /\ BlsEmitted
  /\ bls.entry = "generateObject"
  /\ bls.opts.networkInfo = JsUndefined
  /\ EmittedRecord.keys = <<"message", "signature", "metadata">>
  /\ MetadataAsClaimed


(***************************************************************************)
(* C20: buildDomain, and with it buildSigningRoot and both assemblers,     *)
(* fails with the invalid-network-info error and yields no domain whenever *)
(* forkVersion is missing or not 4 bytes long, or validatorsRoot is        *)
(* missing or not 32 bytes long; the deposit assembler fails so before any *)
(* signer call.                                                            *)
(***************************************************************************)
\* The errors about the fork version and the validators root.
InvalidNetworkInfoErrors ==
  {Err(ERR_FORK_VERSION), Err(ERR_VALIDATORS_ROOT),
   Err(ERR_NO_FORK_VERSION), Err(ERR_FORK_VERSION_LEN),
   Err(ERR_NO_VALIDATORS_ROOT), Err(ERR_VALIDATORS_ROOT_LEN)}

\* buildDomain fails, with the error of the first of the two values at fault.
BuildDomainRejects ==
  (util.fn = "buildDomain" /\ ~ValidNetworkInfo(util.networkInfo)) =>
    util.ret =
      IF util.networkInfo.forkVersion.t # "buffer"
         \/ BufLen(util.networkInfo.forkVersion.buf) # 4
      THEN Err(ERR_FORK_VERSION)
      ELSE Err(ERR_VALIDATORS_ROOT)

\* buildSigningRoot fails; for a 32-byte object root (nothing else at fault)
\* the error is the one of buildDomain.
BuildSigningRootRejects ==
  (util.fn = "buildSigningRoot" /\ ~ValidNetworkInfo(util.networkInfo)) =>
    /\ ~util.ret.ok
    /\ BufLen(util.objectRoot) = 32 => util.ret \in InvalidNetworkInfoErrors

\* The deposit assembler fails before any signer call; when nothing else is
\* at fault the error is the one of the network info.
DepositRejects ==
  (DepositStarted /\ dep.opts.networkInfo.t = "object"
     /\ ~ValidNetworkInfo(dep.opts.networkInfo.v)) =>
    /\ RejectedBeforeSigner
    /\ dep.output = dep.result
    /\ (/\ ~Falsy(dep.path)
        /\ AmountInRange(dep.amountGwei)
        /\ ~AtLeastTwoPow53(dep.amountGwei)
        /\ ~Falsy(dep.depositCliVersion)
        /\ ~Falsy(dep.networkInfo.v.networkName)) =>
         dep.result \in InvalidNetworkInfoErrors

\* The BLS-to-execution-change assembler returns no record and sends no sign
\* request; once the change root is computed it fails with the error of
\* buildDomain.
BlsRejects ==
  (BlsStarted /\ ~ValidNetworkInfo(BlsNetworkInfo)) =>
    /\ bls.pc \in {"awaitKey", "thrown"}
    /\ BlsEventsOf("sign") = {}
    /\ bls.blsToExecutionChangeRoot # NoBuf =>
         bls.pc = "thrown" /\ bls.result \in InvalidNetworkInfoErrors

C20_InvalidNetworkInfo ==
  /\ BuildDomainRejects
  /\ BuildSigningRootRejects
  /\ DepositRejects
  /\ BlsRejects

\* buildDomain has refused a 33-byte validators root.
C20_Witness ==
  /\ util.fn = "buildDomain"
  /\ util.networkInfo.forkVersion.t = "buffer"
  /\ BufLen(util.networkInfo.forkVersion.buf) = 4
  /\ util.networkInfo.validatorsRoot.t = "buffer"
  /\ BufLen(util.networkInfo.validatorsRoot.buf) = 33
  /\ util.ret = Err(ERR_VALIDATORS_ROOT)

\* The deposit assembler has refused a 3-byte fork version without a signer
\* call.
C20_WitnessDeposit ==
  /\ dep.pc = "thrown"
  /\ dep.io = <<>>
  /\ dep.opts.networkInfo.t = "object"
  /\ dep.opts.networkInfo.v.forkVersion.t = "buffer"
  /\ BufLen(dep.opts.networkInfo.v.forkVersion.buf) = 3
  /\ dep.result = Err(ERR_FORK_VERSION_LEN)

\* The BLS-to-execution-change assembler has failed on a missing validators
\* root, after the key was resolved.
C20_WitnessBls ==
  /\ bls.pc = "thrown"
  /\ Len(bls.io) = 2
  /\ bls.opts.networkInfo.t = "object"
  /\ bls.opts.networkInfo.v.validatorsRoot = JsUndefined
  /\ bls.result = Err(ERR_VALIDATORS_ROOT)


(***************************************************************************)
(* C21: buildSigningRoot fails with the invalid-object-root error for      *)
(* every object root that is not 32 bytes long, whatever the domain type   *)
(* and the network info, and returns a 32-byte signing root for every      *)
(* 32-byte object root with a valid network info.                          *)
(***************************************************************************)
C21_ObjectRootLength ==
  util.fn = "buildSigningRoot" =>
    /\ BufLen(util.objectRoot) # 32 => util.ret = Err(ERR_OBJECT_ROOT)
    /\ (BufLen(util.objectRoot) = 32 /\ ValidNetworkInfo(util.networkInfo)) =>
         util.ret.ok /\ BufLen(util.ret.val) = 32

\* A 33-byte object root has been refused although the network info is
\* invalid too.
C21_Witness ==
  /\ util.fn = "buildSigningRoot"
  /\ BufLen(util.objectRoot) = 33
  /\ ~ValidNetworkInfo(util.networkInfo)
  /\ util.ret = Err(ERR_OBJECT_ROOT)

\* A 32-byte object root has been signed over.
C21_WitnessAccepted ==
  /\ util.fn = "buildSigningRoot"
  /\ BufLen(util.objectRoot) = 32
  /\ util.ret.ok
  /\ BufLen(util.ret.val) = 32


(***************************************************************************)
(* C22: ensureHexBuffer decodes a hex string with a leading 0x to the same *)
(* bytes as the string without the prefix, returns an input that is a      *)
(* buffer as it is, and fails with the invalid-encoding error for every    *)
(* input that is neither a string nor a buffer.                            *)
(***************************************************************************)
\* The bytes of the texts whose bytes are known beforehand.
KnownBytes(text) ==
  CASE text = <<>> -> <<>>
    [] text = HexEncode(Bytes(1, 3)) -> Bytes(1, 3)
    [] text = HexEncode(Bytes(2, 20)) -> Bytes(2, 20)
    [] text = HexEncode(sha256(Bytes(1, 4))) -> sha256(Bytes(1, 4))
    [] text = Str(<<"A", "b", "C", "d">>) -> <<[lit |-> <<171, 205>>]>>
    [] text = Str(<<"a", "b", "c">>) -> <<[lit |-> <<171>>]>>
    [] text = Str(<<"z", "z">>) -> <<>>

C22_EnsureHexBuffer ==
  /\ util.fn = "ensureHexBuffer" =>
       /\ util.input.t = "buffer" => util.ret = Ok(util.input.buf)
       /\ util.input.t = "string" => util.ret.ok
       /\ util.input.t \notin {"string", "buffer"} => util.ret = Err(ERR_INPUT)
  /\ util.fn = "ensureHexBuffer2" =>
       /\ util.ret1 = Ok(KnownBytes(util.text))
       /\ util.ret2 = util.ret1

\* A 20-byte text has been decoded to the same 20 bytes with and without 0x.
C22_Witness ==
  /\ util.fn = "ensureHexBuffer2"
  /\ util.text = HexEncode(Bytes(2, 20))
  /\ util.ret2 = Ok(Bytes(2, 20))
  /\ util.ret1.ok
  /\ BufLen(util.ret1.val) = 20

\* An array of bytes has been refused.
C22_WitnessRefused ==
  /\ util.fn = "ensureHexBuffer"
  /\ util.input.t = "array"
  /\ util.ret = Err(ERR_INPUT)


(***************************************************************************)
(* C23: every consumer of the byte-vector codec rejects a decoded value    *)
(* of another length than the one it requires: the deposit assembler a     *)
(* resolved deposit key that is not 48 bytes long, the BLS-to-execution-   *)
(* change assembler an execution address that is not 20 bytes long and a   *)
(* resolved withdrawal key that is not 48 bytes long; no signature is      *)
(* requested and no record emitted over a field of a wrong length.         *)
(***************************************************************************)
\* The deposit key has been resolved with another length than 48 bytes.
WrongDepositKey ==
  /\ Len(dep.io) >= 2
  /\ dep.io[2].ev = "addresses"
  /\ BufLen(dep.io[2].pubs0.buf) # 48

\* The caller's execution address has another length than 20 bytes.
WrongEth1Addr ==
  /\ BlsStarted
  /\ ~Eth1AddrAbsent
  /\ BufLen(DecodedEth1Addr) # 20

\* The withdrawal key has been resolved with another length than 48 bytes.
WrongBlsKey ==
  /\ Len(bls.io) >= 2
  /\ bls.io[2].ev = "addresses"
  /\ BufLen(bls.io[2].pubs0.buf) # 48

DepositKeyChecked ==
  WrongDepositKey => dep.pc = "thrown" /\ EventsOf("sign") = {}

BlsLengthsChecked ==
  (WrongEth1Addr \/ WrongBlsKey) => bls.pc = "thrown" /\ BlsEventsOf("sign") = {}

C23_ExactLengths == DepositKeyChecked /\ BlsLengthsChecked

\* What the code does: generateObject of the BLS-to-execution-change
\* assembler checks both lengths; nothing is said of generate nor of the
\* deposit assembler.
C23_ExactLengthsAsCoded ==
  bls.entry = "generateObject" =>
    /\ BlsLengthsChecked
    /\ WrongEth1Addr => bls.io = <<>> /\ bls.result \in {Err(ERR_ETH1_ADDR), Err(ERR_NO_VALIDATOR_IDX)}
    /\ (WrongBlsKey /\ ~WrongEth1Addr) => bls.result = Err(ERR_BLS_PUB)

\* The deposit assembler has returned a record over a 47-byte deposit key.
C23_DepositRecordOverShortKey ==
  /\ dep.pc = "returned"
  /\ BufLen(dep.depositKey) = 47
  /\ EventsOf("sign") # {}

\* generate of the BLS-to-execution-change assembler has returned a record
\* over a 19-byte address.
C23_BlsRecordOverShortAddress ==
  /\ bls.pc = "returned"
  /\ bls.entry = "generate"
  /\ BufLen(bls.eth1AddrBuf) = 19


(***************************************************************************)
(* C25: once an error has occurred in an assembler call (a failed check, a *)
(* failed key resolution, a failed sign request, a signer mismatch) the    *)
(* call makes no further signer request, never makes a request again that  *)
(* it has made, and ends with the error without a record.                  *)
(***************************************************************************)
IsRequest(e) == e.ev \in {"getAddresses", "sign"}

RequestsOf(io) == SelectSeq(io, IsRequest)

NoRequestTwice(io) ==
  \A j, k \in 1..Len(io) : (j < k /\ IsRequest(io[j]) /\ IsRequest(io[k])) => io[j] # io[k]

\* One step of a call c to c2: a failed call stays as it is; the step that
\* fails sends nothing and leaves an error, no record; a rejected request is
\* the last event of the call.
AbortsOnError(c, c2) ==
  /\ c.pc = "thrown" => c2 = c
  /\ c2.pc = "thrown" =>
       /\ ~c2.result.ok
       /\ RequestsOf(c2.io) = RequestsOf(c.io)
  /\ \A k \in 1..Len(c2.io) :
       c2.io[k].ev = "rejected" =>
         k = Len(c2.io) /\ c2.pc = "thrown" /\ c2.result = Err(ERR_REJECTED)
  /\ NoRequestTwice(c2.io)

C25_ErrorsAbort ==
  [][/\ AbortsOnError(dep, dep')
     /\ dep'.pc = "thrown" => dep'.output = dep'.result
     /\ AbortsOnError(bls, bls')]_vars

\* The derived withdrawal key was refused: the deposit call has failed with
\* its second request the last one.
C25_Witness ==
  /\ dep.pc = "thrown"
  /\ Len(dep.io) = 4
  /\ dep.io[3].ev = "getAddresses"
  /\ dep.io[4].ev = "rejected"
  /\ dep.result = Err(ERR_REJECTED)


(***************************************************************************)
(* C26: in every assembler call all key-resolution requests are made and   *)
(* answered before the sign request is made, exactly one sign request is   *)
(* made per successful call (generate of the deposit data included), and a *)
(* record is emitted only after the sign request has been answered.        *)
(***************************************************************************)
\* The log of a call: requests and answers alternate; all that precedes a
\* sign request are key resolutions with their keys; nothing but the answer
\* follows it.
OrderedLog(io) ==
  /\ \A k \in 1..Len(io) :
       /\ k % 2 = 1 => IsRequest(io[k])
       /\ k % 2 = 0 => ~IsRequest(io[k])
  /\ \A k \in 1..Len(io) :
       io[k].ev = "sign" =>
         /\ k >= 3
         /\ \A j \in 1..(k - 1) :
              io[j].ev = IF j % 2 = 1 THEN "getAddresses" ELSE "addresses"
         /\ Len(io) <= k + 1

\* A call that returned made one sign request, and its answer, a signature,
\* is the last event.
SignedOnce(io) ==
  /\ Cardinality({k \in 1..Len(io) : io[k].ev = "sign"}) = 1
  /\ Len(io) >= 4
  /\ io[Len(io) - 1].ev = "sign"
  /\ io[Len(io)].ev = "signature"

C26_SignerOrder ==
  /\ OrderedLog(dep.io)
  /\ OrderedLog(bls.io)
  /\ dep.pc = "returned" => SignedOnce(dep.io) /\ dep.output.ok
  /\ (dep.pc # "idle" /\ dep.output # JsUndefined /\ dep.output.ok) => dep.pc = "returned"
  /\ bls.pc = "returned" => SignedOnce(bls.io)
  /\ (bls.pc # "idle" /\ bls.result # JsUndefined /\ bls.result.ok) => bls.pc = "returned"

\* generate of the deposit data has returned its calldata after two key
\* resolutions and one sign request.
C26_Witness ==
  /\ dep.pc = "returned"
  /\ dep.entry = "generate"
  /\ Len(dep.io) = 6
  /\ dep.io[3].ev = "getAddresses"
  /\ dep.io[5].ev = "sign"
  /\ dep.output.ok

\* generateObject of the BLS-to-execution-change assembler has returned.
C26_WitnessBls ==
  /\ bls.pc = "returned"
  /\ bls.entry = "generateObject"
  /\ Len(bls.io) = 4


(***************************************************************************)
(* C27: in the deposit assembler every check of the parameters (path       *)
(* present, amount not zero and in range, version tag not empty,           *)
(* networkName present, forkVersion of 4 bytes, validatorsRoot of 32       *)
(* bytes) comes before the first signer request: a call that fails one of  *)
(* them makes no key-resolution request and no sign request.               *)
(***************************************************************************)
FailsACheck ==
  \/ Falsy(dep.path)
  \/ ~AmountInRange(dep.amountGwei)
  \/ Falsy(dep.depositCliVersion)
  \/ Falsy(dep.networkInfo.v.networkName)
  \/ ~ValidNetworkInfo(dep.networkInfo.v)

C27_ChecksBeforeSigner ==
  (DepositStarted /\ FailsACheck) =>
    /\ dep.pc = "thrown"
    /\ RequestsOf(dep.io) = <<>>
    /\ dep.io = <<>>
    /\ ~dep.result.ok
    /\ dep.output = dep.result

\* A call whose only fault is a missing network name has failed without a
\* request.
C27_Witness ==
  /\ dep.pc = "thrown"
  /\ dep.io = <<>>
  /\ ~Falsy(dep.path)
  /\ AmountInRange(dep.amountGwei)
  /\ ~Falsy(dep.depositCliVersion)
  /\ Falsy(dep.networkInfo.v.networkName)
  /\ ValidNetworkInfo(dep.networkInfo.v)
  /\ dep.result = Err(ERR_NO_NETWORK_NAME)


(***************************************************************************)
(* C28: in the deposit assembler a withdrawTo that decodes to another      *)
(* length than 20 or 48 bytes makes the call fail after the deposit key    *)
(* has been resolved and before any sign request.                          *)
(***************************************************************************)
\* The caller's withdrawTo stands for bytes that cannot be encoded.
UnencodableWithdrawTo ==
  /\ dep.opts.withdrawTo # JsUndefined
  /\ BufLen(DecodedWithdrawTo) \notin {20, 48}

C28_WithdrawToLength ==
  (DepositStarted /\ UnencodableWithdrawTo) =>
    /\ dep.pc \in {"awaitDepositKey", "thrown"}
    /\ EventsOf("sign") = {}
    /\ Len(dep.io) <= 2
    /\ (Len(dep.io) = 2 /\ dep.io[2].ev = "addresses") =>
         /\ dep.pc = "thrown"
         /\ dep.result = Err(ERR_WITHDRAWAL_KEY)
         /\ dep.output = dep.result
    /\ (~FailsACheck /\ ~AtLeastTwoPow53(dep.amountGwei)) =>
         /\ Len(dep.io) >= 1
         /\ dep.io[1] = GetAddressesReq(dep.path.v)

\* The deposit key was resolved and the call failed on the 19 bytes of
\* withdrawTo.
C28_Witness ==
  /\ dep.pc = "thrown"
  /\ dep.opts.withdrawTo = PrefixedHexString(Bytes(5, 19))
  /\ Len(dep.io) = 2
  /\ dep.io[2].ev = "addresses"
  /\ BufLen(dep.io[2].pubs0.buf) = 48
  /\ dep.result = Err(ERR_WITHDRAWAL_KEY)


(***************************************************************************)
(* C29: the BLS-to-execution-change assembler takes the validator index 0  *)
(* as present: with validatorIdx = 0 and a valid execution address it does *)
(* not raise the missing-parameter error, and the record it emits has the  *)
(* string 0 as message.validator_index.                                    *)
(***************************************************************************)
IndexZeroCall ==
  /\ BlsStarted
  /\ bls.opts.validatorIdx = NumZero
  /\ ~Eth1AddrAbsent
  /\ BufLen(DecodedEth1Addr) = 20

C29_IndexZero ==
  IndexZeroCall =>
    /\ bls.result \notin {Err(ERR_NO_ETH1_ADDR), Err(ERR_NO_VALIDATOR_IDX)}
    /\ ~BlsRejectedBeforeSigner
    /\ bls.io[1] = GetAddressesReq(bls.path.v)
    /\ BlsEmitted => EmittedRecord.v.message.v.validator_index = Str(<<"0">>)

\* generateObject has emitted the record of validator 0.
C29_Witness ==
  /\ IndexZeroCall
  /\ BlsEmitted
  /\ bls.entry = "generateObject"
  /\ EmittedRecord.v.message.v.validator_index = Str(<<"0">>)

\* generate has emitted the record of validator 0.
C29_WitnessGenerate ==
  /\ IndexZeroCall
  /\ BlsEmitted
  /\ bls.entry = "generate"
  /\ EmittedRecord.v.message.v.validator_index = Str(<<"0">>)


(***************************************************************************)
(* C30: no operation of the core modifies its inputs or the shared         *)
(* constants: after any calls, returned or thrown, the buffers of          *)
(* NETWORKS.MAINNET_GENESIS and of DOMAINS, the buffers of the caller's    *)
(* networkInfo, the path array and the key buffers hold the values they    *)
(* held before.                                                            *)
(***************************************************************************)
\* The memory in reach of the assembler calls is as it was when they began.
AssemblersKeepMemory ==
  /\ dep.heap = CallMemory(dep.path, dep.opts.networkInfo)
  /\ bls.heap = CallMemory(bls.path, bls.opts.networkInfo)
  /\ \A r \in SharedRefs : dep.heap[r] = SharedMemory[r] /\ bls.heap[r] = SharedMemory[r]

\* The memory in reach of a caller of the utility functions is as it was,
\* and the buffer the function filled is the value it returned.
UtilitiesKeepMemory ==
  util.fn = "memory" =>
    /\ util.after = util.before
    /\ util.ret.ok => util.made = util.ret.val

C30_InputsUnchanged == AssemblersKeepMemory /\ UtilitiesKeepMemory

\* getWithdrawalCredentials has encoded a 20-byte buffer of the caller's.
C30_Witness ==
  /\ util.fn = "memory"
  /\ util.of = "getWithdrawalCredentials"
  /\ BufLen(util.before["withdrawalKey"]) = 20
  /\ util.ret.ok
  /\ util.after["withdrawalKey"] = util.before["withdrawalKey"]

\* A deposit call under the caller's own network info has returned.
C30_WitnessDeposit ==
  /\ dep.pc = "returned"
  /\ dep.opts.networkInfo.t = "object"
  /\ BufLen(dep.heap["networkInfo.validatorsRoot"]) = 32
  /\ dep.heap["DOMAINS.DEPOSIT"] = DOMAINS_DEPOSIT

\* buildSigningRoot has built a domain from the caller's buffers.
C30_WitnessDomain ==
  /\ util.fn = "memory"
  /\ util.of = "buildSigningRoot"
  /\ util.ret.ok
  /\ BufLen(util.made) = 32


(***************************************************************************)
(* C24: two assembler calls running concurrently are independent.  Under   *)
(* every interleaving of their continuations, each call is in the state    *)
(* (requests sent, record or error) the same call reaches when run alone   *)
(* with the same arguments and the same answers of the signer, and the     *)
(* memory all calls can reach holds what constants.ts put there: no call   *)
(* has written what another reads.                                         *)
(***************************************************************************)
AsRunAlone(site) == site # NoCall => site.c = site.alone

C24_ConcurrentCalls ==
  /\ \A s \in CallSites : AsRunAlone(calls[s])
  /\ shared = SharedMemory

\* A deposit call and a BLS-to-execution-change call are both suspended at
\* their sign requests.
C24_Witness ==
  /\ calls["first"].kind = "deposit"
  /\ calls["second"].kind = "bls"
  /\ calls["first"].c.pc = "awaitSign"
  /\ calls["second"].c.pc = "awaitSign"

\* Two deposit calls on the built-in network have both returned a record,
\* the second over a key the first never saw.
C24_WitnessReturned ==
  /\ calls["first"].kind = "deposit"
  /\ calls["second"].kind = "deposit"
  /\ calls["first"].c.pc = "returned"
  /\ calls["second"].c.pc = "returned"
  /\ calls["first"].c.opts.networkInfo = JsUndefined
  /\ calls["second"].c.opts.networkInfo = JsUndefined
  /\ calls["first"].c.depositKey # calls["second"].c.depositKey

=============================================================================
